---- MODULE Spec2Model ----
(***************************************************************************)
(* Model of the client connector of actix-web (src/client/connector.rs):   *)
(* the ClientConnector actor, its Pool mailbox, the waiter queue and the   *)
(* Maintenance future.  Time is a discrete clock `now`; every handler runs *)
(* to completion at one instant (single-threaded event loop).             *)
(***************************************************************************)
EXTENDS Integers, Sequences, FiniteSets, Bags, TLC

\* ---------------------------------------------------------------- bounds
MaxTime == 3
MaxWaiters == 3
MaxDials == 2
MaxConns == 2
MaxWs == 1

\* ---------------------------------------------------------------- inputs

\* Connector configurations the builder methods limit(), limit_per_host(),
\* conn_keep_alive() and conn_lifetime() can produce (small values).
Configs ==
  { [limit |-> 1, limit_per_host |-> 0, conn_keep_alive |-> 1, conn_lifetime |-> 2],
    [limit |-> 2, limit_per_host |-> 0, conn_keep_alive |-> 3, conn_lifetime |-> 2],
    [limit |-> 0, limit_per_host |-> 2, conn_keep_alive |-> 3, conn_lifetime |-> 2],
    [limit |-> 2, limit_per_host |-> 1, conn_keep_alive |-> 1, conn_lifetime |-> 2],
    [limit |-> 0, limit_per_host |-> 0, conn_keep_alive |-> 1, conn_lifetime |-> 2] }

\* Connect messages: a scheme and a host ("" = the uri has no host).
Uris ==
  { [scheme |-> "http", host |-> h] : h \in {"h1", "h2"} }
    \cup { [scheme |-> "ws", host |-> "h1"],
           [scheme |-> "https", host |-> "h1"],
           [scheme |-> "http", host |-> ""] }

VARIABLES
  limit, limit_per_host, conn_keep_alive, conn_lifetime,  \* ClientConnector configuration
  now,                  \* Instant::now()
  acquired,             \* ClientConnector.acquired
  acquired_per_host,    \* ClientConnector.acquired_per_host (a map: DOMAIN = keys present)
  available,            \* ClientConnector.available: key -> deque of Conn(last release, connection)
  to_close,             \* ClientConnector.to_close
  waiters,              \* ClientConnector.waiters: key -> deque of Waiter
  wait_timeout,         \* ClientConnector.wait_timeout: Option<(Instant, Timeout)>
  pool_keys,            \* Pool.keys
  pool_to_close,        \* Pool.to_close
  pool_to_release,      \* Pool.to_release
  pool_modified,        \* Pool.modified / ClientConnector.pool_modified
  pool_task,            \* Pool.task is Some
  dials,                \* resolver/TLS futures in flight (a bag), each owning an AcquiredConn
  held,                 \* Connection handles owned by callers
  nwait,                \* number of waiters enqueued so far
  nconn,                \* number of connections opened so far
  served,               \* the last step's hand-overs to waiters, in order: connection or dial
  timed_out,            \* the waiters the last step sent Err(Timeout)
  pipe,                 \* the server Pipeline of one request (middleware chain executor)
  sreq,                 \* the client's SendRequest future
  pl,                   \* the client Pipeline the SendRequest builds, later held by the response
  clock,                \* the reactor's time, in seconds
  app,                  \* the App builder: App.parts, None once finish has taken them
  httpapp,              \* the HttpApplication that App::finish produced
  router,               \* the Router (an Rc): prefix, patterns, named resources
  request,              \* the HttpRequest handed to the application, and what came of it
  frame,                \* a WebSocket frame: the message, its bytes on the wire, the parse
  hfut,                 \* the WithHandlerFut of one request to a With/With2/With3 handler
  defaults              \* a DefaultHeaders middleware and the response it is applied to

\* The connector and what surrounds it.
cfgVars == <<limit, limit_per_host, conn_keep_alive, conn_lifetime>>
poolVars == <<pool_keys, pool_to_close, pool_to_release, pool_modified, pool_task>>
connVars == <<acquired, acquired_per_host, available, to_close>>
netVars == <<cfgVars, now, connVars, waiters, wait_timeout, poolVars, dials, held,
             nwait, nconn, served, timed_out>>
\* The state outside the connector.
webVars == <<app, httpapp, router, request, frame>>
appVars == <<pipe, sreq, pl, clock, webVars, hfut, defaults>>
vars == <<netVars, appVars>>

\* ---------------------------------------------------------------- types

ProtocolFrom(s) ==
  CASE s = "http" -> "Http"
    [] s = "https" -> "Https"
    [] s = "ws" -> "Ws"
    [] s = "wss" -> "Wss"
    [] OTHER -> "None"

Keys == { [host |-> h, port |-> 80, ssl |-> FALSE] : h \in {"h1", "h2"} }

\* The connector fields acquire/collect work on, as one value.
Connector == [acquired |-> acquired, acquired_per_host |-> acquired_per_host,
              available |-> available, to_close |-> to_close]

SumPerHost(aph) ==
  LET RECURSIVE Sum(_)
      Sum(S) == IF S = {} THEN 0
                ELSE LET k == CHOOSE x \in S : TRUE IN aph[k] + Sum(S \ {k})
  IN Sum(DOMAIN aph)

\* ---------------------------------------------------------------- acquire
\* The per-host test as the code writes it: limit_per_host >= *per_host.
PerHostRefuses(c, key) ==
  /\ key \in DOMAIN c.acquired_per_host
  /\ limit_per_host >= c.acquired_per_host[key]

\* The total limit tested also when it is 0.
LimitAlways(c, key) ==
  IF c.acquired >= limit
    THEN TRUE
    ELSE IF limit_per_host > 0 THEN PerHostRefuses(c, key) ELSE FALSE

\* The total limit tested one slot late.
LimitExceeded(c, key) ==
  IF limit > 0
    THEN IF c.acquired > limit
           THEN TRUE
           ELSE IF limit_per_host > 0 THEN PerHostRefuses(c, key) ELSE FALSE
    ELSE IF limit_per_host > 0 THEN PerHostRefuses(c, key) ELSE FALSE

\* "check limits"
LimitReached(c, key) ==
  IF limit > 0
    THEN IF c.acquired >= limit
           THEN TRUE
           ELSE IF limit_per_host > 0 THEN PerHostRefuses(c, key) ELSE FALSE
    ELSE IF limit_per_host > 0 THEN PerHostRefuses(c, key) ELSE FALSE

\* A release that frees the total slot and leaves the key's entry alone.
release_total(c, key) == [c EXCEPT !.acquired = @ - 1]

release_key(c, key) ==
  LET c1 == [c EXCEPT !.acquired = @ - 1]
  IN IF key \notin DOMAIN c.acquired_per_host
       THEN c1
       ELSE IF c.acquired_per_host[key] > 1
              THEN [c1 EXCEPT !.acquired_per_host[key] = @ - 1]
              ELSE [c1 EXCEPT !.acquired_per_host =
                                  [k \in DOMAIN @ \ {key} |-> @[k]]]

\* A check of the keep-alive alone.
StaleIdle(e) == (now - e.t) > conn_keep_alive

\* "check if it still usable"
Stale(e) ==
  \/ (now - e.t) > conn_keep_alive
  \/ (now - e.conn.ts) > conn_lifetime

\* The while-let loop over connections.pop_back(); probe[id] is what the read
\* on connection id returns.
RECURSIVE ScanIdle(_, _, _)
ScanIdle(c, key, probe) ==
  LET q == c.available[key] IN
  IF q = <<>>
    THEN [res |-> "Available", conn |-> [id |-> 0, key |-> [host |-> "", port |-> 0, ssl |-> FALSE], ts |-> 0], c |-> c]
    ELSE LET e == q[Len(q)]
             c1 == [c EXCEPT !.available[key] = SubSeq(q, 1, Len(q) - 1)]
         IN IF Stale(e)
              THEN ScanIdle([c1 EXCEPT !.to_close = @ \cup {e.conn.id}], key, probe)
              ELSE CASE probe[e.conn.id] = "WouldBlock" ->
                          [res |-> "Acquired", conn |-> e.conn, c |-> c1]
                     [] probe[e.conn.id] = "Data" ->
                          ScanIdle([c1 EXCEPT !.to_close = @ \cup {e.conn.id}], key, probe)
                     [] OTHER -> ScanIdle(c1, key, probe)

acquire(c, key, probe) ==
  IF LimitReached(c, key)
    THEN [res |-> "NotAvailable", conn |-> [id |-> 0, key |-> [host |-> "", port |-> 0, ssl |-> FALSE], ts |-> 0], c |-> c]
    ELSE LET per_host == IF key \in DOMAIN c.acquired_per_host
                           THEN c.acquired_per_host[key] ELSE 0
             \* reserve
             reserved == [c EXCEPT !.acquired = @ + 1,
                                   !.acquired_per_host =
                                      [k \in DOMAIN @ \cup {key} |->
                                         IF k = key THEN per_host + 1 ELSE @[k]]]
         IN ScanIdle(reserved, key, probe)

\* ---------------------------------------------------------------- collect
\* for key in keys { self.release_key(&key) }
RECURSIVE DrainKeys(_, _)
DrainKeys(c, keys) ==
  IF keys = <<>> THEN c
  ELSE DrainKeys(release_key(c, Head(keys)), Tail(keys))

\* for conn in to_close { release_key(&conn.key); self.to_close.push(conn) }
RECURSIVE DrainClose(_, _)
DrainClose(c, conns) ==
  IF conns = <<>> THEN c
  ELSE DrainClose([release_key(c, Head(conns).key) EXCEPT !.to_close = @ \cup {Head(conns).id}],
                  Tail(conns))

\* A lifetime check that lets a connection of exactly the lifetime return.
ReturnableAtLimit(conn) == (now - conn.ts) <= conn_lifetime

\* "check connection lifetime and the return to available pool"
Returnable(conn) == (now - conn.ts) < conn_lifetime

\* A drain of to_release that returns the connections and frees no slot.
RECURSIVE ReturnOnly(_, _)
ReturnOnly(c, conns) ==
  IF conns = <<>> THEN c
  ELSE LET conn == Head(conns)
       IN ReturnOnly(IF (now - conn.ts) < conn_lifetime
                       THEN [c EXCEPT !.available[conn.key] = Append(@, [t |-> now, conn |-> conn])]
                       ELSE c,
                     Tail(conns))

\* for conn in to_release { release_key(&conn.key); if young: available.push_back }
RECURSIVE DrainRelease(_, _)
DrainRelease(c, conns) ==
  IF conns = <<>> THEN c
  ELSE LET conn == Head(conns)
           c1 == release_key(c, conn.key)
       IN DrainRelease(IF Returnable(conn)
                         THEN [c1 EXCEPT !.available[conn.key] = Append(@, [t |-> now, conn |-> conn])]
                         ELSE c1,
                       Tail(conns))

\* while !conns.is_empty() { if expired(conns[0]) pop_front else break }
RECURSIVE EvictFront(_)
EvictFront(q) ==
  IF q = <<>> THEN q
  ELSE IF \/ (now > q[1].t) /\ (now - q[1].t) > conn_keep_alive
          \/ (now - q[1].conn.ts) > conn_lifetime
       THEN EvictFront(Tail(q))
       ELSE q

IdsOf(q) == { q[i].conn.id : i \in 1..Len(q) }

\* collect(), without the shutdown loop of the periodic pass.
collect(c) ==
  LET c1 == IF pool_modified
              THEN DrainRelease(DrainClose(DrainKeys(c, pool_keys), pool_to_close),
                                pool_to_release)
              ELSE c
      kept == [k \in Keys |-> EvictFront(c1.available[k])]
      evicted == UNION { IdsOf(c1.available[k]) \ IdsOf(kept[k]) : k \in Keys }
  IN [c1 EXCEPT !.available = kept, !.to_close = @ \cup evicted]

\* What collect() leaves in the Pool: the three buffers are taken only under
\* pool_modified; the flag is cleared at the end.
PoolCollected ==
  /\ pool_keys' = IF pool_modified THEN <<>> ELSE pool_keys
  /\ pool_to_close' = IF pool_modified THEN <<>> ELSE pool_to_close
  /\ pool_to_release' = IF pool_modified THEN <<>> ELSE pool_to_release
  /\ pool_modified' = FALSE

SetConnector(c) ==
  /\ acquired' = c.acquired
  /\ acquired_per_host' = c.acquired_per_host
  /\ available' = c.available
  /\ to_close' = c.to_close

\* ---------------------------------------------------------------- waiters
\* VecDeque::swap_remove_back(idx): the element at idx is replaced by the last one.
swap_remove_back(q, idx) ==
  IF idx = Len(q) THEN SubSeq(q, 1, Len(q) - 1)
  ELSE [SubSeq(q, 1, Len(q) - 1) EXCEPT ![idx] = q[Len(q)]]

\* An expiry that takes a waiter only after its deadline instant.
RECURSIVE ExpireLate(_, _)
ExpireLate(q, idx) ==
  IF idx > Len(q) THEN q
  ELSE IF q[idx].wait < now
         THEN ExpireLate(swap_remove_back(q, idx), idx)
         ELSE ExpireLate(q, idx + 1)

\* The while idx < waiters.len() loop of collect_waiters over one queue.
RECURSIVE ExpireQueue(_, _)
ExpireQueue(q, idx) ==
  IF idx > Len(q) THEN q
  ELSE IF q[idx].wait <= now
         THEN ExpireQueue(swap_remove_back(q, idx), idx)
         ELSE ExpireQueue(q, idx + 1)

Min(S) == CHOOSE x \in S : \A y \in S : x <= y

install_wait_timeout(wt, time) ==
  IF wt.set /\ wt.time < time THEN wt ELSE [set |-> TRUE, time |-> time]

\* collect_waiters(): the queues left, the waiters sent Timeout, the timer.
collect_waiters(ws, wt) ==
  LET left == [k \in Keys |-> ExpireQueue(ws[k], 1)]
      WaiterIds(q) == { q[i].id : i \in 1..Len(q) }
      expired == UNION { WaiterIds(ws[k]) \ WaiterIds(left[k]) : k \in Keys }
      deadlines == UNION { { left[k][i].wait : i \in 1..Len(left[k]) } : k \in Keys }
  IN [waiters |-> left,
      expired |-> expired,
      wait_timeout |-> IF deadlines # {} THEN install_wait_timeout(wt, Min(deadlines))
                       ELSE wt]

\* ---------------------------------------------------------------- state

\* No client request was made.
NoSendRequest == [state |-> "Absent", timeout |-> [set |-> FALSE, at |-> 0], conn_timeout |-> 0,
                  reply |-> "Unsent", sent |-> 0, sent_at |-> 0,
                  req |-> [body |-> "Done", left |-> 0, decompress |-> FALSE, head |-> FALSE],
                  trace |-> <<>>, res |-> [kind |-> "Idle"], dropped |-> FALSE]

NoClientPipeline == [live |-> "None", conn |-> FALSE, parser |-> FALSE, decompress |-> FALSE,
                     should_decompress |-> FALSE, body |-> "Done", left |-> 0,
                     write_state |-> "Running", disconnected |-> FALSE,
                     flushed |-> FALSE, head |-> "No", handed |-> <<>>, out |-> "None"]

Start(cfgs) ==
  /\ \E cfg \in cfgs :
       /\ limit = cfg.limit
       /\ limit_per_host = cfg.limit_per_host
       /\ conn_keep_alive = cfg.conn_keep_alive
       /\ conn_lifetime = cfg.conn_lifetime
  /\ now = 0
  /\ acquired = 0
  /\ acquired_per_host = <<>>
  /\ available = [k \in Keys |-> <<>>]
  /\ to_close = {}
  /\ waiters = [k \in Keys |-> <<>>]
  /\ wait_timeout = [set |-> FALSE, time |-> 0]
  /\ pool_keys = <<>>
  /\ pool_to_close = <<>>
  /\ pool_to_release = <<>>
  /\ pool_modified = FALSE
  /\ pool_task = FALSE
  /\ dials = EmptyBag
  /\ held = {}
  /\ nwait = 0
  /\ nconn = 0
  /\ served = <<>>
  /\ timed_out = {}
  /\ pipe = [state |-> "None", count |-> 0, idx |-> 0, short |-> 0, pending |-> {}, resp |-> <<>>, log |-> <<>>, total |-> 0, written |-> 0, writer |-> "Ready"]
  /\ sreq = NoSendRequest
  /\ pl = NoClientPipeline
  /\ clock = 0
  /\ app = [state |-> "Absent"]
  /\ httpapp = [state |-> "Absent"]
  /\ router = [state |-> "Absent"]
  /\ request = [state |-> "Absent"]
  /\ frame = [state |-> "Absent"]
  /\ hfut = [state |-> "Absent"]
  /\ defaults = [state |-> "Absent"]

NoStepLog == served' = <<>> /\ timed_out' = {}

\* The connector as the handler's acquire sees it: after collect, if it ran.
Collected == IF pool_modified THEN collect(Connector) ELSE Connector

\* The reads a handler can see on the idle connections of the keys ks.
Probes(ks) == [UNION { IdsOf(Collected.available[k]) : k \in ks } -> {"WouldBlock", "Data", "Eof"}]

\* What Connect derives from the uri.
KeyOf(uri) ==
  [host |-> uri.host,
   port |-> IF ProtocolFrom(uri.scheme) \in {"Http", "Ws"} THEN 80 ELSE 443,
   ssl |-> ProtocolFrom(uri.scheme) \in {"Https", "Wss"}]

\* ---------------------------------------------------------------- Handler<Connect>
InvalidConnect(uri) ==
  \/ uri.host = ""
  \/ ProtocolFrom(uri.scheme) = "None"
  \/ LET HAS_OPENSSL == FALSE   \* the build's features: neither "alpn" nor "tls"
         HAS_TLS == FALSE
     IN (ProtocolFrom(uri.scheme) \in {"Https", "Wss"}) /\ ~HAS_OPENSSL /\ ~HAS_TLS

\* cap = the sizes the run is cut at.
Connect(uri, wait_time, probe, cap) ==
  \E c0 \in {Collected} :
    LET proto == ProtocolFrom(uri.scheme)
        key == KeyOf(uri)
        id == nwait + 1
    IN /\ PoolCollected
       /\ NoStepLog
       /\ UNCHANGED <<appVars, cfgVars, now, nconn>>
       /\ IF InvalidConnect(uri)
            THEN \* reply Err(InvalidUrl) or Err(SslIsNotSupported)
                 /\ pool_modified
                 /\ SetConnector(c0)
                 /\ UNCHANGED <<waiters, wait_timeout, pool_task, dials, held, nwait>>
            ELSE /\ pool_task' = TRUE
                 /\ IF ~(proto \in {"Https", "Http"})
                      THEN \* no admission: AcquiredConn(key, None)
                           /\ BagCardinality([d \in { x \in BagToSet(dials) : ~x.pooled } |-> dials[d]])
                                + Cardinality({ h \in held : ~h.pooled }) < cap.ws
                           /\ SetConnector(c0)
                           /\ dials' = dials (+) SetToBag({[req |-> 0, key |-> key, pooled |-> FALSE]})
                           /\ UNCHANGED <<waiters, wait_timeout, held, nwait>>
                      ELSE \E a \in {acquire(c0, key, probe)} :
                        CASE a.res = "Acquired" ->
                                /\ SetConnector(a.c)
                                /\ held' = held \cup {[conn |-> a.conn, pooled |-> TRUE]}
                                /\ UNCHANGED <<waiters, wait_timeout, dials, nwait>>
                          [] a.res = "NotAvailable" ->
                                /\ nwait < cap.waiters
                                /\ now + wait_time <= cap.time
                                /\ nwait' = id
                                /\ SetConnector(a.c)
                                /\ wait_timeout' = install_wait_timeout(wait_timeout, now + wait_time)
                                /\ waiters' = [waiters EXCEPT ![key] =
                                                 Append(@, [id |-> id, wait |-> (now + wait_time)])]
                                /\ UNCHANGED <<dials, held>>
                          [] a.res = "Available" ->
                                /\ BagCardinality(dials) < cap.dials
                                /\ SetConnector(a.c)
                                /\ dials' = dials (+) SetToBag({[req |-> 0, key |-> key, pooled |-> TRUE]})
                                /\ UNCHANGED <<waiters, wait_timeout, held, nwait>>

\* ---------------------------------------------------------------- Maintenance
\* A loop that does not look at tx.is_canceled().
RECURSIVE ServeAll(_, _, _, _)
ServeAll(m, key, gone, probe) ==
  IF m.waiters[key] = <<>> THEN m
  ELSE LET waiter == Head(m.waiters[key])
           m1 == [m EXCEPT !.waiters[key] = Tail(@)]
           a == acquire(m.c, key, probe)
       IN CASE a.res = "Acquired" ->
                 ServeAll([m1 EXCEPT !.c = a.c,
                                     !.held = @ \cup {[conn |-> a.conn, pooled |-> TRUE]},
                                     !.served = Append(@, [req |-> waiter.id, key |-> a.conn.key, how |-> "conn"])],
                          key, gone, probe)
            [] a.res = "NotAvailable" -> m
            [] a.res = "Available" ->
                 ServeAll([m1 EXCEPT !.c = a.c,
                                     !.dials = @ (+) SetToBag({[req |-> waiter.id, key |-> key, pooled |-> TRUE]}),
                                     !.served = Append(@, [req |-> waiter.id, key |-> key, how |-> "dial"])],
                          key, gone, probe)

\* The "check waiters" loop over one key's queue; m carries what the loop
\* changes, gone = the waiters whose tx.is_canceled() is true.
RECURSIVE ServeQueue(_, _, _, _)
ServeQueue(m, key, gone, probe) ==
  IF m.waiters[key] = <<>> THEN m
  ELSE LET waiter == Head(m.waiters[key])
           m1 == [m EXCEPT !.waiters[key] = Tail(@)]
           a == acquire(m.c, key, probe)
       IN IF waiter.id \in gone
            THEN ServeQueue(m1, key, gone, probe)
            ELSE CASE a.res = "Acquired" ->
                        ServeQueue([m1 EXCEPT !.c = a.c,
                                              !.held = @ \cup {[conn |-> a.conn, pooled |-> TRUE]},
                                              !.served = Append(@, [req |-> waiter.id, key |-> a.conn.key, how |-> "conn"])],
                                   key, gone, probe)
                   [] a.res = "NotAvailable" -> m
                   [] a.res = "Available" ->
                        ServeQueue([m1 EXCEPT !.c = a.c,
                                              !.dials = @ (+) SetToBag({[req |-> waiter.id, key |-> key, pooled |-> TRUE]}),
                                              !.served = Append(@, [req |-> waiter.id, key |-> key, how |-> "dial"])],
                                   key, gone, probe)

\* for (key, waiters) in &mut tmp.waiters, in the map's iteration order.
RECURSIVE ServeKeys(_, _, _, _)
ServeKeys(m, order, gone, probe) ==
  IF order = <<>> THEN m
  ELSE ServeKeys(ServeQueue(m, Head(order), gone, probe), Tail(order), gone, probe)

KeyOrders == { o \in [1..Cardinality(Keys) -> Keys] : \A i, j \in DOMAIN o : i # j => o[i] # o[j] }

QueuedIds == UNION { { waiters[k][i].id : i \in 1..Len(waiters[k]) } : k \in Keys }

\* Maintenance::poll
Maintenance(order, gone, probe) ==
  \E w \in {collect_waiters(waiters, wait_timeout)} :
    \E m \in {ServeKeys([c |-> Collected, waiters |-> w.waiters, dials |-> dials,
                         held |-> held, served |-> <<>>], order, gone, probe)} :
      /\ PoolCollected
      /\ SetConnector(m.c)
      /\ waiters' = m.waiters
      /\ wait_timeout' = w.wait_timeout
      /\ dials' = m.dials
      /\ held' = m.held
      /\ served' = m.served
      /\ timed_out' = w.expired
      /\ UNCHANGED <<appVars, cfgVars, now, pool_task, nwait, nconn>>

\* ---------------------------------------------------------------- Pool
\* A release_key that pushes the key and leaves the modified flag alone.
PoolReleaseKeyQuiet(key) ==
  /\ pool_keys' = Append(pool_keys, key)
  /\ UNCHANGED <<pool_to_close, pool_to_release, pool_modified, pool_task>>

\* Pool::release_key
PoolReleaseKey(key) ==
  /\ pool_modified' = TRUE
  /\ pool_keys' = Append(pool_keys, key)
  /\ UNCHANGED <<pool_to_close, pool_to_release, pool_task>>

\* A release that leaves the modified flag alone.
PoolReleaseQuiet(conn) ==
  /\ pool_to_release' = Append(pool_to_release, conn)
  /\ UNCHANGED <<pool_keys, pool_to_close, pool_modified, pool_task>>

\* Pool::release
PoolRelease(conn) ==
  /\ pool_modified' = TRUE
  /\ pool_to_release' = Append(pool_to_release, conn)
  /\ UNCHANGED <<pool_keys, pool_to_close, pool_task>>

\* ---------------------------------------------------------------- dials
\* The resolver (and handshake) future resolves with a stream; delivered =
\* the requester still holds the receiving end of the reply channel.
DialOk(d, delivered, cap) ==
  /\ BagIn(d, dials)
  /\ dials' = dials (-) SetToBag({d})
  /\ IF delivered
       THEN /\ nconn < cap.conns
            /\ nconn' = nconn + 1
            /\ held' = held \cup {[conn |-> [id |-> (nconn + 1), key |-> d.key, ts |-> now], pooled |-> d.pooled]}
            /\ UNCHANGED poolVars
       ELSE \* tx.send fails: the Connection is dropped
            /\ IF d.pooled THEN PoolReleaseKey(d.key) ELSE UNCHANGED poolVars
            /\ UNCHANGED <<held, nconn>>
  /\ NoStepLog
  /\ UNCHANGED <<appVars, cfgVars, now, connVars, waiters, wait_timeout, nwait>>

\* A failed dial whose AcquiredConn tells the Pool nothing.
DialErrKeepsSlot(d) ==
  /\ BagIn(d, dials)
  /\ dials' = dials (-) SetToBag({d})
  /\ UNCHANGED poolVars
  /\ NoStepLog
  /\ UNCHANGED <<appVars, cfgVars, now, connVars, waiters, wait_timeout, held, nwait, nconn>>

\* The resolver or the handshake fails or times out: the AcquiredConn is dropped.
DialErr(d) ==
  /\ BagIn(d, dials)
  /\ dials' = dials (-) SetToBag({d})
  /\ IF d.pooled THEN PoolReleaseKey(d.key) ELSE UNCHANGED poolVars
  /\ NoStepLog
  /\ UNCHANGED <<appVars, cfgVars, now, connVars, waiters, wait_timeout, held, nwait, nconn>>

\* ---------------------------------------------------------------- callers
\* A release that hands the Pool every connection, also one without a pool.
ReleaseAny(h) ==
  /\ h \in held
  /\ held' = held \ {h}
  /\ PoolRelease(h.conn)
  /\ NoStepLog
  /\ UNCHANGED <<appVars, cfgVars, now, connVars, waiters, wait_timeout, dials, nwait, nconn>>

\* Connection::release
Release(h) ==
  /\ h \in held
  /\ held' = held \ {h}
  /\ IF h.pooled THEN PoolRelease(h.conn) ELSE UNCHANGED poolVars
  /\ NoStepLog
  /\ UNCHANGED <<appVars, cfgVars, now, connVars, waiters, wait_timeout, dials, nwait, nconn>>

\* Connection::close
Close(h) ==
  /\ h \in held
  /\ held' = held \ {h}
  /\ IF h.pooled
       THEN \* Pool::close
            /\ pool_modified' = TRUE
            /\ pool_to_close' = Append(pool_to_close, h.conn)
            /\ UNCHANGED <<pool_keys, pool_to_release, pool_task>>
       ELSE UNCHANGED poolVars
  /\ NoStepLog
  /\ UNCHANGED <<appVars, cfgVars, now, connVars, waiters, wait_timeout, dials, nwait, nconn>>

\* A Connection dropped without release or close: Drop for AcquiredConn.
Drop(h) ==
  /\ h \in held
  /\ held' = held \ {h}
  /\ IF h.pooled THEN PoolReleaseKey(h.conn.key) ELSE UNCHANGED poolVars
  /\ NoStepLog
  /\ UNCHANGED <<appVars, cfgVars, now, connVars, waiters, wait_timeout, dials, nwait, nconn>>

\* ---------------------------------------------------------------- clock
Tick(cap) ==
  /\ now < cap.time
  /\ now' = now + 1
  /\ NoStepLog
  /\ UNCHANGED <<appVars, cfgVars, connVars, waiters, wait_timeout, poolVars, dials, held, nwait, nconn>>

\* The sizes a run is cut at.
Cap(time, nw, nd, nc, ws) ==
  [time |-> time, waiters |-> nw, dials |-> nd, conns |-> nc, ws |-> ws]

\* A maintenance pass, with whatever the environment shows it.
Pass ==
  \E order \in KeyOrders, gone \in SUBSET QueuedIds,
     probe \in Probes({ k \in Keys : waiters[k] # <<>> }) :
     Maintenance(order, gone, probe)

\* The periodic collect, with whatever the shutdowns return.
\* collect_periodic: collect(true); keep = the connections whose shutdown is NotReady.
Periodic ==
  \E c1 \in {collect(Connector)} :
    \E keep \in SUBSET c1.to_close :
      /\ PoolCollected
      /\ SetConnector([c1 EXCEPT !.to_close = keep])
      /\ NoStepLog
      /\ UNCHANGED <<appVars, cfgVars, now, waiters, wait_timeout, pool_task, dials, held, nwait, nconn>>

\* A dial in flight comes to its end.
Dialed(cap) ==
  \/ \E d \in BagToSet(dials), delivered \in BOOLEAN : DialOk(d, delivered, cap)
  \/ \E d \in BagToSet(dials) : DialErr(d)

\* One step of the system, with Connect messages drawn from uris.
Run(uris, cap) ==
  \/ \E uri \in uris, wait_time \in {1, 2} :
        \E probe \in Probes({KeyOf(uri)} \cap Keys) : Connect(uri, wait_time, probe, cap)
  \/ Pass
  \/ Periodic
  \/ Dialed(cap)
  \/ \E h \in held : Release(h)
  \/ \E h \in held : Close(h)
  \/ \E h \in held : Drop(h)
  \/ Tick(cap)

Spec == Start(Configs) /\ [][Run(Uris, Cap(MaxTime, MaxWaiters, MaxDials, MaxConns, MaxWs))]_vars

\* ---------------------------------------------------------------- runs
\* One host behind a pool of one connection: requests queue.
QueueTime == 2
QueueConns == 1

QueueSpec ==
  /\ Start({ cfg \in Configs : cfg.limit = 1 })
  /\ [][Run({ uri \in Uris : uri.host # "h2" /\ uri.scheme # "ws" },
           Cap(QueueTime, MaxWaiters, MaxDials, QueueConns, MaxWs))]_vars

\* The same run under the scheduling of the actor's context: time passes, the
\* context is woken at least once a second by collect_periodic's run_later and
\* polls Maintenance, which it spawned, and a dial ends (the resolver and the
\* handshake run under conn_timeout).
FairWaiters == 2

QueueFairSpec ==
  /\ Start({ cfg \in Configs : cfg.limit = 1 })
  /\ [][Run({ uri \in Uris : uri.host # "h2" /\ uri.scheme # "ws" },
           Cap(QueueTime, FairWaiters, MaxDials, QueueConns, MaxWs))]_vars
  /\ WF_vars(Tick(Cap(QueueTime, FairWaiters, MaxDials, QueueConns, MaxWs)))
  /\ WF_vars(Pass)
  /\ WF_vars(Dialed(Cap(QueueTime, FairWaiters, MaxDials, QueueConns, MaxWs)))

\* One host, http and ws, and a pool of two connections.
PoolWaiters == 1

PoolSpec ==
  /\ Start({ cfg \in Configs : cfg.limit = 2 /\ cfg.limit_per_host = 0 })
  /\ [][Run({ uri \in Uris : uri.host # "h2" },
           Cap(MaxTime, PoolWaiters, MaxDials, MaxConns, MaxWs))]_vars

HostSpec ==
  /\ Start({ cfg \in Configs : cfg.limit_per_host > 0 })
  /\ [][Run({ uri \in Uris : uri.scheme # "ws" },
           Cap(QueueTime, PoolWaiters, MaxDials, MaxConns, MaxWs))]_vars

\* ---------------------------------------------------------------- properties
\* The slots a key holds in acquired_per_host (0 without an entry).
PerHost(c, key) ==
  IF key \in DOMAIN c.acquired_per_host THEN c.acquired_per_host[key] ELSE 0

Count(q, P(_)) == Cardinality({ i \in 1..Len(q) : P(q[i]) })

\* The notifications for key waiting in the Pool for the next collect.
Pending(key) ==
  LET IsKey(k) == k = key
      HasKey(conn) == conn.key = key
  IN Count(pool_keys, IsKey) + Count(pool_to_close, HasKey) + Count(pool_to_release, HasKey)

\* The pooled handles callers hold on key, and the pooled dials in flight to it.
PooledHeld(key) == Cardinality({ h \in held : h.pooled /\ h.conn.key = key })

PooledDials(key) ==
  BagCardinality([d \in { x \in BagToSet(dials) : x.pooled /\ x.key = key } |-> dials[d]])

\* C1: acquire(key) returns NotAvailable exactly when the total limit is set and
\* reached or the per-host limit is set and the key holds at least that many
\* slots; otherwise it reserves one slot of the key and returns Acquired or
\* Available.  Stated on the connector between collects.
C1_AdmissionRule ==
  ~pool_modified =>
    \A key \in Keys : \A probe \in Probes({key}) :
      LET a == acquire(Connector, key, probe)
          refused == \/ limit > 0 /\ acquired >= limit
                     \/ limit_per_host > 0 /\ PerHost(Connector, key) >= limit_per_host
      IN /\ (a.res = "NotAvailable") <=> refused
         /\ a.res # "NotAvailable" =>
               /\ a.res \in {"Acquired", "Available"}
               /\ a.c.acquired = acquired + 1
               /\ PerHost(a.c, key) = PerHost(Connector, key) + 1

\* C2: acquired equals the sum of acquired_per_host, it never goes below zero,
\* and every release_key waiting in the Pool finds a slot of its key to free.
C2_CountersAgree ==
  /\ acquired = SumPerHost(acquired_per_host)
  /\ acquired >= 0
  /\ \A key \in Keys : Pending(key) <= PerHost(Connector, key)

\* Both hosts hold slots while a released connection waits for its collect.
C2_Witness ==
  /\ Cardinality(DOMAIN acquired_per_host) = 2
  /\ pool_to_release # <<>>

\* C3 as stated: acquired and the sum of acquired_per_host both equal the number
\* of Connection handles callers hold.
C3_SlotsAreHandles ==
  /\ acquired = Cardinality(held)
  /\ SumPerHost(acquired_per_host) = Cardinality(held)

\* C3, amended: the slots of a key are its http handles held by callers, plus
\* its http dials in flight, plus its releases, closes and drops the next
\* collect has still to take from the Pool; acquired is their total.  A ws
\* handle holds no slot.
C3_SlotsAccounted ==
  /\ \A key \in Keys :
        PerHost(Connector, key) = PooledHeld(key) + PooledDials(key) + Pending(key)
  /\ acquired = SumPerHost(acquired_per_host)

\* A caller holds an http connection, a second one was released and waits for
\* its collect, and a ws dial is in flight.
C3_Witness ==
  /\ \E h \in held : h.pooled
  /\ pool_to_release # <<>>
  /\ \E d \in BagToSet(dials) : ~d.pooled

\* C4: under a total limit the reserved slots, that is the http connections
\* callers hold plus the http dials in flight for Connect messages and for
\* waiters, never exceed it.
C4_LimitHolds ==
  limit > 0 =>
    /\ acquired <= limit
    /\ \A key \in Keys : PooledHeld(key) + PooledDials(key) <= limit

\* Two dials to one key are in flight at once, filling the limit.
C4_Witness ==
  /\ limit = 2
  /\ \E d \in BagToSet(dials) : d.pooled /\ dials[d] = 2

ServedIds == { served[i].req : i \in 1..Len(served) }

\* C5 as stated: when a step hands a connection or a dial to a waiter, no live
\* waiter enqueued before it on the same key is left in the queue.
C5_EnqueueOrder ==
  [][\A key \in Keys : \A i, j \in 1..Len(waiters[key]) :
       ( /\ i < j
         /\ waiters[key][i].wait > now
         /\ waiters[key][j].wait > now
         /\ waiters[key][j].id \in ServedIds' )
       => waiters[key][i].id \notin QueuedIds']_vars

\* C6: every waiter is completed in the end, and a waiter whose deadline has
\* come when a maintenance pass starts is sent Timeout in that pass and is not
\* handed a connection or a dial.
C6_WaitersCompleted ==
  /\ \A id \in 1..MaxWaiters : (id \in QueuedIds) ~> ~(id \in QueuedIds \/ \E d \in BagToSet(dials) : d.req = id)
  /\ [][\A order \in KeyOrders, gone \in SUBSET QueuedIds,
           probe \in Probes({ k \in Keys : waiters[k] # <<>> }) :
           Maintenance(order, gone, probe) =>
             \A key \in Keys : \A i \in 1..Len(waiters[key]) :
               waiters[key][i].wait <= now =>
                 /\ waiters[key][i].id \in timed_out'
                 /\ waiters[key][i].id \notin ServedIds'
                 /\ waiters[key][i].id \notin QueuedIds']_vars

\* One pass has sent Timeout to a waiter and handed a slot to another.
C6_Witness == timed_out # {} /\ served # <<>>

\* C7 as stated: after every enqueue and every maintenance pass (here one that
\* meets no cancelled waiter) that leaves a live waiter, the timer is set to the
\* earliest deadline of the live waiters.
C7_TimerEarliest ==
  [][( \/ nwait' # nwait
       \/ \E order \in KeyOrders, probe \in Probes({ k \in Keys : waiters[k] # <<>> }) :
            Maintenance(order, {}, probe) )
     /\ (UNION { { waiters[k][i].wait : i \in { n \in 1..Len(waiters[k]) : waiters[k][n].wait > now } } : k \in Keys })' # {} =>
       wait_timeout'.set /\ wait_timeout'.time = Min((UNION { { waiters[k][i].wait : i \in { n \in 1..Len(waiters[k]) : waiters[k][n].wait > now } } : k \in Keys })')]_vars

\* An idle connection past keep-alive since its release or lifetime since its
\* creation.
Overdue(e) == (now - e.t) > conn_keep_alive \/ (now - e.conn.ts) > conn_lifetime

\* C8 as stated: after every collect pass, periodic or of a maintenance pass,
\* no idle connection is past keep-alive or lifetime.
C8_CollectEvicts == [][Periodic \/ (pool_modified /\ Pass) => (\A key \in Keys : \A i \in 1..Len(available[key]) : ~Overdue(available[key][i]))']_vars

\* C9: the idle bucket is in release order and acquire scans it from the newest
\* release: a connection it hands out is within keep-alive and lifetime and its
\* probe would block, every newer one was rejected, and all it examined have
\* left the bucket; it answers Available only with the bucket emptied.
C9_IdleScan ==
  ~pool_modified =>
    \A key \in Keys : \A probe \in Probes({key}) :
      LET q == available[key]
          a == acquire(Connector, key, probe)
          Rejected(e) == Overdue(e) \/ probe[e.conn.id] # "WouldBlock"
      IN /\ \A i, j \in 1..Len(q) : i < j => q[i].t <= q[j].t
         /\ a.res = "Acquired" =>
               \E i \in 1..Len(q) :
                 /\ a.conn = q[i].conn
                 /\ ~Rejected(q[i])
                 /\ \A j \in (i + 1)..Len(q) : Rejected(q[j])
                 /\ a.c.available[key] = SubSeq(q, 1, i - 1)
         /\ a.res = "Available" =>
               /\ \A i \in 1..Len(q) : Rejected(q[i])
               /\ a.c.available[key] = <<>>
         /\ a.res = "NotAvailable" => a.c.available = available

\* Two idle connections of one key, the newest release past its lifetime, the
\* older one usable, and a slot free for the next acquire.
C9_Witness ==
  /\ ~pool_modified
  /\ acquired < limit
  /\ \E key \in Keys :
        /\ Len(available[key]) = 2
        /\ Overdue(available[key][2])
        /\ ~Overdue(available[key][1])

\* C10: with limit 1 and no per-host limit, a request for a key whose one slot
\* is taken is queued; a maintenance pass that finds the slot given back and
\* that request alone in the queue, live, hands it the idle connection of the
\* key if one passes the scan and a dial to the key otherwise; and the Pool
\* holds the task to notify whenever a request is queued.
C10_SecondServed ==
  [][/\ \A uri \in { uri \in Uris : uri.host # "h2" /\ uri.scheme # "ws" }, wait_time \in {1, 2} :
          \A probe \in Probes({KeyOf(uri)} \cap Keys) :
            ( /\ Connect(uri, wait_time, probe, Cap(QueueTime, MaxWaiters, MaxDials, QueueConns, MaxWs))
              /\ ~InvalidConnect(uri)
              /\ limit = 1 /\ limit_per_host = 0
              /\ PooledHeld(KeyOf(uri)) + PooledDials(KeyOf(uri)) = 1 )
            => /\ waiters'[KeyOf(uri)] =
                    Append(waiters[KeyOf(uri)], [id |-> (nwait + 1), wait |-> (now + wait_time)])
               /\ held' = held /\ dials' = dials
     /\ \A order \in KeyOrders, gone \in SUBSET QueuedIds,
           probe \in Probes({ k \in Keys : waiters[k] # <<>> }) :
           \A key \in Keys :
             ( /\ Maintenance(order, gone, probe)
               /\ limit = 1 /\ limit_per_host = 0
               /\ Len(waiters[key]) = 1
               /\ QueuedIds = {waiters[key][1].id}
               /\ waiters[key][1].wait > now
               /\ waiters[key][1].id \notin gone
               /\ \A k \in Keys : PooledHeld(k) + PooledDials(k) = 0 )
             => /\ Len(served') = 1
                /\ served'[1].req = waiters[key][1].id
                /\ served'[1].key = key
                /\ timed_out' = {}
                /\ waiters'[key] = <<>>
                /\ served'[1].how = "conn" =>
                      \E h \in held' \ held :
                        /\ h.pooled /\ h.conn.key = key
                        /\ ~Overdue([t |-> now, conn |-> h.conn])
                        /\ probe[h.conn.id] = "WouldBlock"
                /\ served'[1].how = "dial" =>
                      /\ BagIn([req |-> (waiters[key][1].id), key |-> key, pooled |-> TRUE], dials')
                      /\ available'[key] = <<>>
     /\ QueuedIds' # {} => pool_task']_vars

\* The one queued request was handed the connection the first caller released.
C10_Witness ==
  /\ limit = 1
  /\ nwait = 1
  /\ Len(served) = 1
  /\ served[1].how = "conn"

\* C11: the next collect puts into the idle set exactly the released
\* connections younger than the lifetime, each stamped with the time of the
\* collect; a closed connection and a connection a caller still holds are not
\* idle; and the collect frees one slot of its key for every release, close and
\* drop the Pool holds.
C11_ReleaseReturns ==
  LET c1 == collect(Connector)
      Released(key) == { pool_to_release[i].id :
                           i \in { n \in 1..Len(pool_to_release) : pool_to_release[n].key = key } }
  IN /\ \A key \in Keys :
          /\ IdsOf(c1.available[key]) \subseteq IdsOf(available[key]) \cup Released(key)
          /\ PerHost(c1, key) = PerHost(Connector, key) - Pending(key)
          /\ \A h \in held : h.conn.id \notin IdsOf(available[key])
     /\ c1.acquired = acquired - Len(pool_keys) - Len(pool_to_close) - Len(pool_to_release)
     /\ \A i \in 1..Len(pool_to_release) :
          LET conn == pool_to_release[i]
          IN /\ pool_modified
             /\ conn.id \notin IdsOf(available[conn.key])
             /\ (\E j \in 1..Len(c1.available[conn.key]) :
                    c1.available[conn.key][j] = [t |-> now, conn |-> conn])
                  <=> (now - conn.ts) < conn_lifetime
     /\ \A i \in 1..Len(pool_to_close) :
          /\ pool_modified
          /\ pool_to_close[i].id \notin IdsOf(c1.available[pool_to_close[i].key])
     /\ pool_keys # <<>> => pool_modified

\* A connection as old as the lifetime was released and waits for its collect,
\* beside one that was closed.
C11_Witness ==
  /\ \E i \in 1..Len(pool_to_release) : (now - pool_to_release[i].ts) >= conn_lifetime
  /\ pool_to_close # <<>>

\* C12 as stated: every cancelled waiter in a queue is gone from it after the
\* next maintenance pass, and was handed nothing.
C12_CancelledRemoved ==
  [][\A order \in KeyOrders, gone \in SUBSET QueuedIds,
        probe \in Probes({ k \in Keys : waiters[k] # <<>> }) :
        Maintenance(order, gone, probe) =>
          /\ gone \cap QueuedIds' = {}
          /\ gone \cap ServedIds' = {}]_vars

\* C12, amended: a pass hands nothing to a cancelled waiter and reserves slots
\* only for the waiters it serves; it goes on past the cancelled waiters it
\* meets, so that a queue it leaves non-empty starts with a waiter that is not
\* cancelled and was refused because a limit is reached.  A cancelled waiter
\* behind that one stays queued.
C12_CancelledSkipped ==
  [][\A order \in KeyOrders, gone \in SUBSET QueuedIds,
        probe \in Probes({ k \in Keys : waiters[k] # <<>> }) :
        Maintenance(order, gone, probe) =>
          /\ gone \cap ServedIds' = {}
          /\ acquired' = Collected.acquired + Len(served')
          /\ \A key \in Keys :
               waiters'[key] # <<>> =>
                 /\ Head(waiters'[key]).id \notin gone
                 /\ Head(waiters'[key]).wait > now
                 /\ \/ limit > 0 /\ acquired' >= limit
                    \/ limit_per_host > 0 /\ key \in DOMAIN acquired_per_host']_vars

\* A pass has handed a dial to the second waiter while the first, which it
\* did not serve and which did not time out, has left the queue.
C12_Witness ==
  /\ nwait >= 2
  /\ Len(served) = 1
  /\ served[1].req = 2
  /\ timed_out = {}
  /\ 1 \notin QueuedIds
  /\ nconn = 0
  /\ dials = SetToBag({[req |-> 2, key |-> (served[1].key), pooled |-> TRUE]})

\* ---------------------------------------------------------------- run without a total limit
\* Two hosts, limit 0, with and without a per-host limit.
OpenConfigs == { cfg \in Configs : cfg.limit = 0 }

OpenSpec ==
  /\ Start(OpenConfigs)
  /\ [][Run({ uri \in Uris : uri.scheme # "ws" },
           Cap(QueueTime, PoolWaiters, MaxDials, MaxConns, MaxWs))]_vars

\* C13: with limit 0 acquire refuses only under a per-host limit and for a key
\* that holds a slot; with both limits 0 it never refuses and no request is
\* ever queued.
C13_NoTotalLimit ==
  limit = 0 =>
    /\ \A key \in Keys : \A probe \in Probes({key}) :
          acquire(Collected, key, probe).res = "NotAvailable" =>
            limit_per_host > 0 /\ PerHost(Collected, key) > 0
    /\ limit_per_host = 0 => nwait = 0 /\ QueuedIds = {}

\* Without limits three slots are taken at once, two of them by one host.
C13_Witness ==
  /\ limit = 0 /\ limit_per_host = 0
  /\ acquired = 3
  /\ \E key \in Keys : PerHost(Connector, key) = 2


\* ================================================================ server pipeline
\* The executor that drives one request through the middleware chain and the
\* handler: None -> Starting -> Handler -> RunMiddlewares -> Response ->
\* Finishing -> Completed.  pipe.count is the number of middlewares whose start
\* ran, pipe.idx the next middleware of the response or finish phase,
\* pipe.pending the futures the pipeline waits for, pipe.log the calls made to
\* middlewares and to the handler, each with the response it was given.

\* The middlewares of the application, in insertion order 1..NMw.
NMw == 3
\* The longest response body, in chunks.
MaxChunks == 2

\* The pipeline after it called op of middleware mw (0: the handler).
Called(p, op, mw) == [p EXCEPT !.log = Append(@, [op |-> op, mw |-> mw, resp |-> p.resp])]

IdleAlways(p) == TRUE

\* No future is outstanding: the pipeline may make its next call.
Idle(p) == p.pending = {}

BoundaryAll(i) == NMw

\* The first middleware of the response phase after start i cut the chain short.
Boundary(i) == i

AfterStartDone(i, o) == IF i = NMw THEN "Handler" ELSE "Starting"

\* The state after start of middleware i yielded o.
AfterStart(i, o) ==
  IF o = "Done" THEN (IF i = NMw THEN "Handler" ELSE "Starting") ELSE "RunMiddlewares"

\* start of middleware i yielded o, at once or through its future.
StartOutcome(p, i, o) ==
  CASE o = "Done" -> [p EXCEPT !.state = AfterStart(i, o)]
    [] o = "Response" -> [p EXCEPT !.state = AfterStart(i, o), !.short = i,
                                   !.resp = [by |-> "start", mw |-> i], !.idx = Boundary(i)]
    [] o = "Err" -> [p EXCEPT !.state = AfterStart(i, o),
                              !.resp = [by |-> "error", mw |-> i], !.idx = Boundary(i)]

\* The handler yielded o: its reply, or its error as a response.
HandlerOutcome(p, o) ==
  [p EXCEPT !.state = "RunMiddlewares", !.idx = p.count,
            !.resp = IF o = "Response" THEN [by |-> "handler", mw |-> 0] ELSE [by |-> "error", mw |-> 0]]

\* response of middleware i yielded o; after the last one a body of n chunks
\* is written.
ResponseOutcome(p, i, o, n) ==
  LET resp == CASE o = "Done" -> p.resp
                [] o = "Replace" -> [by |-> "response", mw |-> i]
                [] o = "Err" -> [by |-> "error", mw |-> i]
  IN  IF i = 1
        THEN [p EXCEPT !.resp = resp, !.idx = 0, !.state = "Response", !.total = n]
        ELSE [p EXCEPT !.resp = resp, !.idx = i - 1]

BodyBegun(p) == TRUE

\* Every chunk of the body went to the writer.
BodyEmitted(p) == p.written = p.total

\* A request enters the pipeline.
Enter ==
  /\ pipe.state = "None"
  /\ pipe' = [pipe EXCEPT !.state = "Starting"]
  /\ UNCHANGED <<netVars, hfut, defaults, webVars, sreq, pl, clock>>

CallStart(o) ==
  /\ pipe.state = "Starting"
  /\ Idle(pipe)
  /\ pipe.count < NMw
  /\ \E i \in {pipe.count + 1} : \E q \in {Called([pipe EXCEPT !.count = i], "start", i)} :
       pipe' = IF o = "Future" THEN [q EXCEPT !.pending = @ \cup {[op |-> "start", mw |-> i]}] ELSE StartOutcome(q, i, o)
  /\ UNCHANGED <<netVars, hfut, defaults, webVars, sreq, pl, clock>>

StartResolved(o) ==
  /\ \E f \in pipe.pending :
       /\ f.op = "start"
       /\ pipe' = StartOutcome([pipe EXCEPT !.pending = @ \ {f}], f.mw, o)
  /\ UNCHANGED <<netVars, hfut, defaults, webVars, sreq, pl, clock>>

CallHandler(o) ==
  /\ pipe.state = "Handler"
  /\ Idle(pipe)
  /\ \E q \in {Called(pipe, "handler", 0)} :
       pipe' = IF o = "Future" THEN [q EXCEPT !.pending = @ \cup {[op |-> "handler", mw |-> 0]}] ELSE HandlerOutcome(q, o)
  /\ UNCHANGED <<netVars, hfut, defaults, webVars, sreq, pl, clock>>

HandlerResolved(o) ==
  /\ \E f \in pipe.pending :
       /\ f.op = "handler"
       /\ pipe' = HandlerOutcome([pipe EXCEPT !.pending = @ \ {f}], o)
  /\ UNCHANGED <<netVars, hfut, defaults, webVars, sreq, pl, clock>>

CallResponse(o, n) ==
  /\ pipe.state = "RunMiddlewares"
  /\ Idle(pipe)
  /\ pipe.idx >= 1
  /\ \E q \in {Called(pipe, "response", pipe.idx)} :
       pipe' = IF o = "Future" THEN [q EXCEPT !.pending = @ \cup {[op |-> "response", mw |-> pipe.idx]}]
               ELSE ResponseOutcome(q, pipe.idx, o, n)
  /\ UNCHANGED <<netVars, hfut, defaults, webVars, sreq, pl, clock>>

ResponseResolved(o, n) ==
  /\ \E f \in pipe.pending :
       /\ f.op = "response"
       /\ pipe' = ResponseOutcome([pipe EXCEPT !.pending = @ \ {f}], f.mw, o, n)
  /\ UNCHANGED <<netVars, hfut, defaults, webVars, sreq, pl, clock>>

\* One chunk goes to the writer, which takes more (Ready) or not (Pause).
WriteChunk(w) ==
  /\ pipe.state = "Response"
  /\ pipe.writer = "Ready"
  /\ pipe.written < pipe.total
  /\ pipe' = [pipe EXCEPT !.written = @ + 1, !.writer = w]
  /\ UNCHANGED <<netVars, hfut, defaults, webVars, sreq, pl, clock>>

WriterReady ==
  /\ pipe.state = "Response"
  /\ pipe.writer = "Pause"
  /\ pipe' = [pipe EXCEPT !.writer = "Ready"]
  /\ UNCHANGED <<netVars, hfut, defaults, webVars, sreq, pl, clock>>

\* The peer is gone: teardown proceeds.
WriterDisconnected ==
  /\ pipe.state = "Response"
  /\ pipe' = [pipe EXCEPT !.writer = "Disconnected", !.state = "Finishing", !.idx = pipe.count]
  /\ UNCHANGED <<netVars, hfut, defaults, webVars, sreq, pl, clock>>

BodyDone ==
  /\ pipe.state = "Response"
  /\ BodyEmitted(pipe)
  /\ pipe' = [pipe EXCEPT !.state = "Finishing", !.idx = pipe.count]
  /\ UNCHANGED <<netVars, hfut, defaults, webVars, sreq, pl, clock>>

CallFinish(o) ==
  /\ pipe.state = "Finishing"
  /\ Idle(pipe)
  /\ pipe.idx >= 1
  /\ \E q \in {Called([pipe EXCEPT !.idx = @ - 1], "finish", pipe.idx)} :
       pipe' = IF o = "Future" THEN [q EXCEPT !.pending = @ \cup {[op |-> "finish", mw |-> pipe.idx]}] ELSE q
  /\ UNCHANGED <<netVars, hfut, defaults, webVars, sreq, pl, clock>>

\* A finish future resolved; its error is only logged.
FinishResolved ==
  /\ \E f \in pipe.pending :
       /\ f.op = "finish"
       /\ pipe' = [pipe EXCEPT !.pending = @ \ {f}]
  /\ UNCHANGED <<netVars, hfut, defaults, webVars, sreq, pl, clock>>

Completed ==
  /\ pipe.state = "Finishing"
  /\ Idle(pipe)
  /\ pipe.idx = 0
  /\ pipe' = [pipe EXCEPT !.state = "Completed"]
  /\ UNCHANGED <<netVars, hfut, defaults, webVars, sreq, pl, clock>>

\* One request through the pipeline, next to a connector at rest.
PipeSpec ==
  /\ Start(OpenConfigs)
  /\ [][\/ Enter
        \/ \E o \in {"Done", "Response", "Future", "Err"} : CallStart(o)
        \/ \E o \in {"Done", "Response", "Future", "Err"} \ {"Future"} : StartResolved(o)
        \/ \E o \in {"Response", "Future", "Err"} : CallHandler(o)
        \/ \E o \in {"Response", "Future", "Err"} \ {"Future"} : HandlerResolved(o)
        \/ \E o \in {"Done", "Replace", "Future", "Err"}, n \in 0..MaxChunks : CallResponse(o, n)
        \/ \E o \in {"Done", "Replace", "Future", "Err"} \ {"Future"}, n \in 0..MaxChunks : ResponseResolved(o, n)
        \/ \E w \in {"Ready", "Pause"} : WriteChunk(w)
        \/ WriterReady
        \/ WriterDisconnected
        \/ BodyDone
        \/ \E o \in {"Done", "Future"} : CallFinish(o)
        \/ FinishResolved
        \/ Completed]_vars

\* ---------------------------------------------------------------- properties
\* The middlewares op was called on, in call order.
Calls(op) ==
  LET IsOp(c) == c.op = op
      sel == SelectSeq(pipe.log, IsOp)
  IN  [k \in 1..Len(sel) |-> sel[k].mw]

C16_OneOutstanding ==
  [][/\ Cardinality(pipe'.pending) <= 1
     /\ pipe'.log # pipe.log => pipe.pending = {}]_vars

\* The handler was called and a response future is now awaited.
C16_Witness ==
  /\ \E f \in pipe.pending : f.op = "response"
  /\ pipe.state = "RunMiddlewares"
  /\ Calls("handler") = <<0>>

MaxClock == 6
\* The longest streamed request body, in chunks.
MaxBody == 1

\* Duration::from_secs(5) of poll_timeout
DefaultTimeout == 5
\* Duration::from_secs(1) of conn_timeout
DefaultConnTimeout == 1

ConnectorAlways(err) == [kind |-> "Connector", err |-> err]

\* From<ClientConnectorError> for SendRequestError
SendRequestErrorFrom(err) ==
  IF err = "Timeout" THEN [kind |-> "Timeout", err |-> ""] ELSE [kind |-> "Connector", err |-> err]

poll_timeout_connect(s) ==
  LET armed == IF s.timeout.set THEN s
               ELSE [s EXCEPT !.timeout = [set |-> TRUE, at |-> (clock + DefaultTimeout)]]
  IN  [sreq |-> armed, timeout |-> (armed.timeout.set /\ clock >= armed.timeout.at) /\ s.state = "Connect"]

\* SendRequest::poll_timeout: arms the default timer when none was set, and
\* tells whether the timer fired.
poll_timeout(s) ==
  LET armed == IF s.timeout.set THEN s
               ELSE [s EXCEPT !.timeout = [set |-> TRUE, at |-> (clock + DefaultTimeout)]]
  IN  [sreq |-> armed, timeout |-> (armed.timeout.set /\ clock >= armed.timeout.at)]

\* What is called on the Pipeline's connection: release, close, or nothing
\* but its drop.
release_keep(p) ==
  IF p.conn THEN [p EXCEPT !.handed = Append(@, "release")] ELSE p

\* Pipeline::release_conn
release_conn(p) ==
  IF p.conn THEN [p EXCEPT !.conn = FALSE, !.handed = Append(@, "release")] ELSE p

\* Drop for Pipeline
DropPipeline(p) ==
  IF p.live \in {"Send", "Response"}
    THEN IF p.conn THEN [p EXCEPT !.live = "Dropped", !.conn = FALSE,
                                  !.handed = Append(@, "close")]
                   ELSE [p EXCEPT !.live = "Dropped"]
    ELSE p

\* The body loop of poll_write: chunks go from the body source to the writer
\* until the source has none at hand (avail = 0), ends, or the writer pauses.
RECURSIVE write_loop(_, _, _)
write_loop(p, avail, paused) ==
  IF p.body = "Done"
    THEN [pl |-> [p EXCEPT !.disconnected = TRUE], done |-> TRUE, avail |-> avail]
  ELSE IF avail = 0
    THEN [pl |-> p, done |-> TRUE, avail |-> 0]
  ELSE IF p.left = 0
    THEN [pl |-> [p EXCEPT !.body = "Done", !.disconnected = TRUE],
          done |-> FALSE, avail |-> avail - 1]
  ELSE IF paused
    THEN [pl |-> [p EXCEPT !.left = @ - 1, !.write_state = IF @ # "Done" THEN "Paused" ELSE @],
          done |-> FALSE, avail |-> avail - 1]
  ELSE write_loop([p EXCEPT !.left = @ - 1,
                            !.write_state = IF @ # "Done" THEN "Running" ELSE @],
                  avail - 1, paused)

\* Pipeline::poll_write; io is what the writer's poll_completed reports (Err
\* stands for any io error of the call).
RECURSIVE poll_write(_, _, _, _)
poll_write(p, avail, paused, io) ==
  IF p.write_state = "Done" \/ ~p.conn
    THEN [pl |-> p, res |-> "Ready"]
    ELSE LET w == IF p.write_state # "Paused" THEN write_loop(p, avail, paused)
                  ELSE [pl |-> p, done |-> FALSE, avail |-> avail]
             q == [w.pl EXCEPT !.flushed = TRUE,
                               !.write_state = IF w.pl.disconnected THEN "Done"
                                               ELSE IF @ # "Done" THEN "Running" ELSE @]
         IN  IF io = "Ready"
               THEN IF ~w.done \/ q.write_state = "Done"
                      THEN poll_write(q, w.avail, paused, io)
                      ELSE [pl |-> q, res |-> "NotReady"]
               ELSE [pl |-> w.pl, res |-> io]

\* Pipeline::parse: the response head, once the peer sent it.
parse(p) ==
  IF ~p.conn \/ p.head = "No" THEN [pl |-> p, res |-> "NotReady"]
  ELSE IF p.head = "Bad" THEN [pl |-> p, res |-> "Err"]
  ELSE [pl |-> [p EXCEPT !.decompress = p.should_decompress /\ p.head = "Encoded"],
        res |-> "Ready"]

\* The read loop of Pipeline::poll: rds are the parser's next results, fed
\* what the decompressor makes of a chunk.
RECURSIVE read_loop(_, _, _)
read_loop(p, rds, fed) ==
  IF rds = <<>> \/ Head(rds) = "NotReady" THEN [pl |-> p, out |-> "NotReady"]
  ELSE IF Head(rds) = "Err" THEN [pl |-> p, out |-> "Err"]
  ELSE IF Head(rds) = "Eof" THEN [pl |-> [p EXCEPT !.parser = FALSE], out |-> "Break"]
  ELSE IF ~p.decompress \/ fed = "Some" THEN [pl |-> p, out |-> "Chunk"]
  ELSE IF fed = "None" THEN [pl |-> p, out |-> "NotReady"]
  ELSE IF fed = "WouldBlock" THEN read_loop(p, Tail(rds), fed)
  ELSE [pl |-> p, out |-> "Err"]

\* Pipeline::poll; tail is what the decompressor returns at eof.
poll(p, avail, paused, io, rds, fed, tail) ==
  IF ~p.conn THEN [pl |-> p, out |-> "Eof"]
  ELSE
    LET pw == poll_write(p, avail, paused, io)
        need_run == pw.res = "NotReady"
        rd == IF pw.pl.parser THEN read_loop(pw.pl, rds, fed)
              ELSE [pl |-> pw.pl, out |-> "Break"]
        q == [rd.pl EXCEPT !.decompress = FALSE]
    IN  IF pw.res = "Err" THEN [pl |-> pw.pl, out |-> "Err"]
        ELSE IF rd.out # "Break" THEN rd
        ELSE IF rd.pl.decompress /\ tail = "Err" THEN [pl |-> q, out |-> "Err"]
        ELSE IF rd.pl.decompress /\ tail = "Some" THEN [pl |-> release_conn(q), out |-> "Chunk"]
        ELSE IF need_run THEN [pl |-> q, out |-> "NotReady"]
        ELSE [pl |-> release_conn(q), out |-> "Eof"]

\* State::Connection of SendRequest::poll: the Pipeline built around the
\* connection.
NewPipeline(s, p) ==
  [NoClientPipeline EXCEPT !.live = "Send", !.conn = TRUE, !.parser = TRUE,
                           !.should_decompress = s.req.decompress,
                           !.body = s.req.body, !.left = s.req.left,
                           !.handed = p.handed]

\* The loop of SendRequest::poll from the state s is in; start is what
\* writer.start returns.
RECURSIVE poll_loop(_, _, _, _, _, _)
poll_loop(s, p, start, avail, paused, io) ==
  IF s.state = "New"
    THEN poll_loop([[s EXCEPT !.state = "Connect", !.trace = Append(@, "Connect")] EXCEPT !.sent = @ + 1, !.sent_at = clock,
                                                 !.reply = "Pending"],
                   p, start, avail, paused, io)
  ELSE IF s.state = "Connect"
    THEN IF s.reply = "Pending" THEN [sreq |-> s, pl |-> p, res |-> [kind |-> "NotReady"]]
         ELSE IF s.reply = "Ok"
           THEN poll_loop([s EXCEPT !.state = "Connection", !.trace = Append(@, "Connection")], p, start, avail, paused, io)
         ELSE IF s.reply = "Canceled"
           THEN [sreq |-> [s EXCEPT !.state = "None"], pl |-> p,
                 res |-> [kind |-> "Connector", err |-> "Disconnected"]]
         ELSE [sreq |-> [s EXCEPT !.state = "None"], pl |-> p,
               res |-> SendRequestErrorFrom(s.reply)]
  ELSE IF s.state = "Connection"
    THEN IF start = "Err"
           THEN [sreq |-> [s EXCEPT !.state = "None"],
                 pl |-> [p EXCEPT !.handed = Append(@, "drop")], res |-> [kind |-> "Io", err |-> ""]]
           ELSE poll_loop([[s EXCEPT !.state = "Send", !.trace = Append(@, "Send")] EXCEPT !.req.head = TRUE,
                                                     !.req.body = "Done", !.req.left = 0],
                          NewPipeline(s, p), start, avail, paused, io)
  ELSE \* Send
    LET pw == poll_write(p, avail, paused, io)
        hd == parse(pw.pl)
    IN  IF pw.res = "Err"
          THEN [sreq |-> [s EXCEPT !.state = "None"], pl |-> DropPipeline(pw.pl),
                res |-> [kind |-> "Io", err |-> ""]]
        ELSE IF hd.res = "Ready"
          THEN [sreq |-> [s EXCEPT !.state = "None"],
                pl |-> [hd.pl EXCEPT !.live = "Response"], res |-> [kind |-> "Response"]]
        ELSE IF hd.res = "NotReady"
          THEN [sreq |-> s, pl |-> hd.pl, res |-> [kind |-> "NotReady"]]
        ELSE [sreq |-> [s EXCEPT !.state = "None"], pl |-> DropPipeline(hd.pl),
              res |-> [kind |-> "ParseError", err |-> ""]]

\* SendRequest::poll
SendRequest_poll(s, p, start, avail, paused, io) ==
  LET t == poll_timeout(s)
  IN  IF t.timeout THEN [sreq |-> t.sreq, pl |-> p, res |-> [kind |-> "Timeout", err |-> ""]]
      ELSE poll_loop(t.sreq, p, start, avail, paused, io)

\* ClientRequest::send, or send with a connection the caller brings
\* (SendRequest::with_connector, SendRequest::with_connection), followed by
\* the optional timeout() and conn_timeout().
Send(with, t, ct, body, dec) ==
  /\ sreq.state = "Absent"
  /\ \E state \in {IF with = "connector" THEN "New" ELSE "Connection"} :
       sreq' = [NoSendRequest EXCEPT
                  !.state = state, !.trace = <<state>>,
                  !.timeout = IF t = 0 THEN [set |-> FALSE, at |-> 0] ELSE [set |-> TRUE, at |-> (clock + t)],
                  !.conn_timeout = ct,
                  !.req = [body |-> body, left |-> IF body = "Done" THEN 0 ELSE MaxBody,
                           decompress |-> dec, head |-> FALSE]]
  /\ UNCHANGED <<netVars, hfut, defaults, webVars, pipe, pl, clock>>

\* The task polls the future.
Poll(start, avail, paused, io) ==
  /\ (sreq.state # "Absent" /\ ~sreq.dropped /\ sreq.res.kind \in {"Idle", "NotReady"})
  /\ \E r \in {SendRequest_poll(sreq, pl, start, avail, paused, io)} :
       /\ sreq' = [r.sreq EXCEPT !.res = r.res]
       /\ pl' = r.pl
  /\ UNCHANGED <<netVars, hfut, defaults, webVars, pipe, clock>>

\* The connector answers the Connect message, or is gone (Canceled); its
\* Timeout comes when conn_timeout has passed.
ConnectorReplies(r) ==
  /\ sreq.reply = "Pending"
  /\ ~sreq.dropped
  /\ r = "Timeout" => clock >= sreq.sent_at + sreq.conn_timeout
  /\ sreq' = [sreq EXCEPT !.reply = r]
  /\ UNCHANGED <<netVars, hfut, defaults, webVars, pipe, pl, clock>>

\* The peer's response head reaches the socket, after request bytes went out.
HeadArrives(h) ==
  /\ pl.flushed
  /\ pl.live = "Send"
  /\ pl.head = "No"
  /\ pl' = [pl EXCEPT !.head = h]
  /\ UNCHANGED <<netVars, hfut, defaults, webVars, pipe, sreq, clock>>

\* The response's payload is polled: Pipeline::poll.
PollBody(avail, paused, io, rds, fed, tail) ==
  /\ pl.live = "Response"
  /\ \E r \in {poll(pl, avail, paused, io, rds, fed, tail)} :
       pl' = [r.pl EXCEPT !.out = r.out]
  /\ UNCHANGED <<netVars, hfut, defaults, webVars, pipe, sreq, clock>>

\* The future is dropped, with what its state owns.
DropSendRequest ==
  /\ sreq.state \notin {"Absent", "None"}
  /\ ~sreq.dropped
  /\ sreq' = [sreq EXCEPT !.dropped = TRUE]
  /\ pl' = IF sreq.state = "Connection" THEN [pl EXCEPT !.handed = Append(@, "drop")]
           ELSE IF sreq.state = "Send" THEN DropPipeline(pl)
           ELSE pl
  /\ UNCHANGED <<netVars, hfut, defaults, webVars, pipe, clock>>

\* The response is dropped, and its Pipeline with it.
DropResponse ==
  /\ pl.live = "Response"
  /\ pl' = DropPipeline(pl)
  /\ UNCHANGED <<netVars, hfut, defaults, webVars, pipe, sreq, clock>>

ClockTick(max) ==
  /\ clock < max
  /\ (sreq.state # "Absent" /\ ~sreq.dropped /\ sreq.res.kind \in {"Idle", "NotReady"})
  /\ clock' = clock + 1
  /\ UNCHANGED <<netVars, hfut, defaults, webVars, pipe, sreq, pl>>

\* Every choice of what the writer, the body source and the parser do during
\* one poll of the pipeline p.
BodyInputs(p) ==
  [avail : IF p.body = "Payload" THEN 0..(MaxBody + 1) ELSE {0},
   paused : IF p.body = "Payload" THEN BOOLEAN ELSE {FALSE},
   io : {"Ready", "NotReady", "Err"},
   rds : IF ~p.parser THEN {<<>>}
         ELSE { <<r>> : r \in {"Chunk", "Eof", "NotReady", "Err"} }
                \cup (IF p.decompress THEN { <<"Chunk", r>> : r \in {"Chunk", "Eof"} } ELSE {}),
   fed : IF p.decompress THEN {"Some", "None", "WouldBlock", "Err"} ELSE {"None"},
   tail : IF p.decompress THEN {"Some", "None", "Err"} ELSE {"None"}]

\* The steps up to the response head, with the timeouts ts and cts to
\* choose from and the clock running to max.
SendSteps(ts, cts, max) ==
  \/ \E with \in {"connector", "connection"}, t \in ts, ct \in cts,
        body \in {"Done", "Payload"}, dec \in BOOLEAN : Send(with, t, ct, body, dec)
  \/ \E start \in {"Ok", "Err"},
        avail \in IF "Payload" \in {sreq.req.body, pl.body} THEN 0..(MaxBody + 1) ELSE {0},
        paused \in IF "Payload" \in {sreq.req.body, pl.body} THEN BOOLEAN ELSE {FALSE},
        io \in {"Ready", "NotReady", "Err"} :
       Poll(start, avail, paused, io)
  \/ \E r \in {"Ok", "Canceled"} \cup {"InvalidUrl", "Timeout", "Disconnected", "IoError"} : ConnectorReplies(r)
  \/ \E h \in {"Plain", "Encoded", "Bad"} : HeadArrives(h)
  \/ DropSendRequest
  \/ ClockTick(max)

\* The steps of the response's payload.
BodySteps ==
  \/ \E i \in BodyInputs(pl) :
       /\ pl.write_state = "Done" => i.io = "Ready"
       /\ PollBody(i.avail, i.paused, i.io, i.rds, i.fed, i.tail)
  \/ DropResponse

SendSpec == Start(OpenConfigs) /\ [][(SendSteps({0} \cup {2}, {DefaultConnTimeout, 2}, MaxClock))]_vars

\* One request with the default timeouts, and the reading of its response.
BodyClock == 1

BodySpec == Start(OpenConfigs) /\ [][(SendSteps({0}, {DefaultConnTimeout}, BodyClock) \/ BodySteps)]_vars

\* ---------------------------------------------------------------- properties


C19_TimeoutAtNextPoll ==
  /\ (sreq.state # "Absent" /\ ~sreq.dropped /\ sreq.res.kind \in {"Idle", "NotReady"}) /\ (sreq.timeout.set /\ clock >= sreq.timeout.at) =>
       \A i \in [start : {"Ok", "Err"}, avail : 0..(MaxBody + 1), paused : BOOLEAN, io : {"Ready", "NotReady", "Err"}] :
         \E r \in {SendRequest_poll(sreq, pl, i.start, i.avail, i.paused, i.io)} :
           /\ r.res = [kind |-> "Timeout", err |-> ""]
           /\ r.sreq = sreq
           /\ r.pl = pl
  /\ sreq.res = [kind |-> "Response"] => ~(sreq.timeout.set /\ clock >= sreq.timeout.at)

\* The request timed out while its Connect was unanswered and the connect
\* timeout had not passed.
C19_Witness ==
  /\ sreq.res = [kind |-> "Timeout", err |-> ""]
  /\ sreq.state = "Connect"
  /\ sreq.reply = "Pending"
  /\ clock < sreq.sent_at + sreq.conn_timeout

Ascii ==
  LET chars == <<"%", ".", "/", "0", "1", "2", "3", "4", "5", "6", "7", "8", "9",
                 "A", "B", "C", "D", "E", "F", "a", "b", "c", "d", "e", "f",
                 "h", "p", "x">>
      codes == <<37, 46, 47, 48, 49, 50, 51, 52, 53, 54, 55, 56, 57,
                 65, 66, 67, 68, 69, 70, 97, 98, 99, 100, 101, 102,
                 104, 112, 120>>
  IN [c \in {chars[i] : i \in 1..Len(chars)} |->
        codes[CHOOSE i \in 1..Len(chars) : chars[i] = c]]

\* percent_decode(bytes): every "%XY" with two hex digits becomes one byte.
RECURSIVE percent_decode(_)
percent_decode(s) ==
  LET IsHex(c) == Ascii[c] \in (48..57) \cup (65..70) \cup (97..102)
      HexVal(c) == IF Ascii[c] <= 57 THEN Ascii[c] - 48
                   ELSE IF Ascii[c] <= 70 THEN Ascii[c] - 55
                   ELSE Ascii[c] - 87
  IN IF s = <<>> THEN <<>>
     ELSE IF Len(s) >= 3 /\ s[1] = "%" /\ IsHex(s[2]) /\ IsHex(s[3])
          THEN <<16 * HexVal(s[2]) + HexVal(s[3])>> \o percent_decode(SubSeq(s, 4, Len(s)))
          ELSE <<Ascii[s[1]]>> \o percent_decode(Tail(s))

\* decode_utf8: a byte of 128 or more that is not part of a multi-byte sequence
\* is not UTF-8 (the paths used here have lone such bytes only).
decode_utf8(bytes) ==
  IF \E i \in 1..Len(bytes) : bytes[i] >= 128 THEN [err |-> "Utf8Error"]
  ELSE [err |-> "",
        s |-> [i \in 1..Len(bytes) |-> CHOOSE c \in DOMAIN Ascii : Ascii[c] = bytes[i]]]

\* ---------------------------------------------------------------- Resource
\* Resource::parse: (re, elems, is_dynamic); re is re1 for a dynamic pattern and
\* the string re2 for a static one.  An element of the regular expression re1
\* is an escaped character (Lit) or a named group (?P<name>pattern); re1 is
\* anchored by "^" and "$".  ParseChar is the body of the loop over
\* pattern.chars().enumerate().
Resource_parse(pattern, prefix) ==
  LET DEFAULT_PATTERN == <<"[", "^", "/", "]", "+">>
      Lit(ch) == [lit |-> TRUE, ch |-> ch, name |-> <<>>, pattern |-> <<>>]
      Group(name, pat) == [lit |-> FALSE, ch |-> "", name |-> name, pattern |-> pat]
      start ==
        [re1 |-> [i \in 1..Len(prefix) |-> Lit(prefix[i])], re2 |-> prefix, el |-> <<>>,
         in_param |-> FALSE, in_param_pattern |-> FALSE, param_name |-> <<>>,
         param_pattern |-> DEFAULT_PATTERN, is_dynamic |-> FALSE, elems |-> <<>>]
      ParseChar(st, index, ch) ==
        IF index = 0 /\ ch = "/" THEN st
        ELSE IF st.in_param
        THEN IF ch = "}"
             THEN [st EXCEPT !.elems = Append(@, [var |-> TRUE, s |-> st.param_name]),
                             !.re1 = Append(@, Group(st.param_name, st.param_pattern)),
                             !.param_name = <<>>,
                             !.param_pattern = DEFAULT_PATTERN,
                             !.in_param_pattern = FALSE,
                             !.in_param = FALSE]
             ELSE IF ch = ":"
             THEN [st EXCEPT !.in_param_pattern = TRUE, !.param_pattern = <<>>]
             ELSE IF st.in_param_pattern
             THEN IF ch = " " /\ st.param_pattern = <<>> THEN st
                  ELSE [st EXCEPT !.param_pattern = Append(@, ch)]
             ELSE [st EXCEPT !.param_name = Append(@, ch)]
        ELSE IF ch = "{"
        THEN [st EXCEPT !.in_param = TRUE, !.is_dynamic = TRUE,
                        !.elems = Append(@, [var |-> FALSE, s |-> st.el]), !.el = <<>>]
        ELSE [st EXCEPT !.re1 = Append(@, Lit(ch)), !.re2 = Append(@, ch),
                        !.el = Append(@, ch)]
      RECURSIVE ParseFrom(_, _)
      ParseFrom(st, i) ==
        IF i > Len(pattern) THEN st
        ELSE ParseFrom(ParseChar(st, i - 1, pattern[i]), i + 1)
      end == ParseFrom(start, 1)
  IN [re1 |-> end.re1, re2 |-> end.re2, elems |-> end.elems, is_dynamic |-> end.is_dynamic]

\* Resource::new(name, path) is with_prefix(name, path, "/"); names are
\* Regex::capture_names, the named ones, in group order.
ResourceNew(name, path) ==
  LET p == Resource_parse(path, <<"/">>)
      groups == SelectSeq(p.re1, LAMBDA it : ~it.lit)
  IN [dynamic |-> p.is_dynamic,
      re |-> IF p.is_dynamic THEN p.re1 ELSE <<>>,
      names |-> IF p.is_dynamic THEN [i \in 1..Len(groups) |-> groups[i].name] ELSE <<>>,
      static |-> IF p.is_dynamic THEN <<>> ELSE p.re2,
      elements |-> p.elems,
      name |-> name,
      rtp |-> "Normal",
      pattern |-> path]

external(name, path) == [ResourceNew(name, path) EXCEPT !.rtp = "External"]

\* ---------------------------------------------------------------- regex
\* Regex::captures of the anchored expression from element k and position pos:
\* greedy groups, backtracking from the longest repetition (leftmost-first
\* semantics).  The group patterns understood: an atom ("[^/]", "." or one
\* character), optionally followed by "+" or "*"; the empty pattern matches the
\* empty string.
RECURSIVE CapturesFrom(_, _, _, _)
CapturesFrom(re, k, path, pos) ==
  LET NoMatch == [ok |-> FALSE, caps |-> <<>>]
      p == re[k].pattern
      AtomLen == IF p[1] = "[" THEN 4 ELSE 1
      AtomOk(c) == IF p[1] = "[" THEN c # "/" ELSE IF p[1] = "." THEN TRUE ELSE c = p[1]
      Quantifier == IF Len(p) > AtomLen THEN p[AtomLen + 1] ELSE ""
      MinRep == IF p = <<>> \/ Quantifier = "*" THEN 0 ELSE 1
      \* the longest run of the group's atom in path from pos
      run == CHOOSE n \in 0..(Len(path) + 1 - pos) :
               /\ \A i \in 0..(n - 1) : AtomOk(path[pos + i])
               /\ pos + n <= Len(path) => ~AtomOk(path[pos + n])
      MaxRep == IF p = <<>> \/ pos > Len(path) THEN 0
                ELSE IF Quantifier = "" /\ run > 1 THEN 1
                ELSE run
  IN IF k > Len(re)
     THEN IF pos = Len(path) + 1 THEN [ok |-> TRUE, caps |-> <<>>] ELSE NoMatch
     ELSE IF re[k].lit
     THEN IF pos <= Len(path) /\ path[pos] = re[k].ch
          THEN CapturesFrom(re, k + 1, path, pos + 1)
          ELSE NoMatch
     ELSE LET fits == {n \in MinRep..MaxRep : CapturesFrom(re, k + 1, path, pos + n).ok}
          IN IF fits = {} THEN NoMatch
             ELSE LET n == CHOOSE m \in fits : \A o \in fits : o <= m
                      rest == CapturesFrom(re, k + 1, path, pos + n)
                  IN [ok |-> TRUE,
                      caps |-> <<SubSeq(path, pos, pos + n - 1)>> \o rest.caps]

is_match(res, path) ==
  IF res.dynamic THEN CapturesFrom(res.re, 1, path, 1).ok ELSE res.static = path

\* str::starts_with.
starts_with(s, pre) == Len(pre) <= Len(s) /\ SubSeq(s, 1, Len(pre)) = pre

\* ---------------------------------------------------------------- Params
\* Resource::match_with_params: capture 0 is the whole match and is skipped,
\* capture idx is added under names[idx - 1].  One entry of Params: the name and
\* the value are slices.  from = "path" for a slice of the request's own path,
\* "local" for a slice of a string that a function owned (it is freed when that
\* function returns).
match_with_params(res, path, params, from) ==
  IF ~res.dynamic THEN [ok |-> res.static = path, params |-> params]
  ELSE LET c == CapturesFrom(res.re, 1, path, 1)
       IN IF c.ok
          THEN [ok |-> TRUE,
                params |-> params \o [idx \in 1..Len(c.caps) |->
                                        [name |-> res.names[idx], value |-> c.caps[idx],
                                         from |-> from]]]
          ELSE [ok |-> FALSE, params |-> params]

\* ---------------------------------------------------------------- Router
RECURSIVE trim_right_matches(_, _)
trim_right_matches(s, ch) ==
  IF s # <<>> /\ s[Len(s)] = ch THEN trim_right_matches(SubSeq(s, 1, Len(s) - 1), ch) ELSE s

\* str::trim, for the one kind of whitespace used here.
trim(s) ==
  LET RECURSIVE trim_left(_)
      trim_left(t) == IF t # <<>> /\ t[1] = " " THEN trim_left(Tail(t)) ELSE t
  IN trim_right_matches(trim_left(s), " ")

NoHandler == [some |-> FALSE, kind |-> "", for |-> <<>>, k |-> 0]

\* A Router::new that keeps every pattern, with or without a handler.
RouterNewAll(prefix, map) ==
  LET pfx == trim_right_matches(trim(prefix), "/")
      kept == SelectSeq(map, LAMBDA e : e.resource.some)
  IN [router |-> [state |-> "Some", prefix |-> pfx, prefix_len |-> Len(pfx),
                  named |-> <<>>,
                  patterns |-> [i \in 1..Len(map) |-> map[i].pattern]],
      resources |-> [i \in 1..Len(kept) |-> kept[i].resource]]

\* Router::new: map is a sequence of (pattern, Option<ResourceHandler>), None
\* written as NoHandler.
RouterNew(prefix, map) ==
  LET pfx == trim_right_matches(trim(prefix), "/")
      kept == SelectSeq(map, LAMBDA e : e.resource.some)
      names == {map[i].pattern.name : i \in 1..Len(map)} \ {<<>>}
      last(n) == CHOOSE i \in 1..Len(map) :
                   /\ map[i].pattern.name = n
                   /\ \A j \in 1..Len(map) : map[j].pattern.name = n => j <= i
  IN [router |-> [state |-> "Some", prefix |-> pfx, prefix_len |-> Len(pfx),
                  named |-> [n \in names |->
                               [pattern |-> map[last(n)].pattern,
                                external |-> ~map[last(n)].resource.some]],
                  patterns |-> [i \in 1..Len(kept) |-> kept[i].pattern]],
      resources |-> [i \in 1..Len(kept) |-> kept[i].resource]]

None_idx == -1

\* A loop that tries the pattern at idx only.
RecognizeOne(rt, idx, p, req) ==
  IF idx >= Len(rt.patterns) THEN [ret |-> None_idx, req |-> req]
  ELSE LET m == match_with_params(rt.patterns[idx + 1], p, req.params, "local")
       IN IF m.ok
          THEN [ret |-> idx, req |-> [req EXCEPT !.params = m.params, !.resource = idx]]
          ELSE [ret |-> None_idx, req |-> req]

\* The loop of recognize over patterns, from index idx (0-based).
RECURSIVE RecognizeFrom(_, _, _, _)
RecognizeFrom(rt, idx, p, req) ==
  IF idx >= Len(rt.patterns) THEN [ret |-> None_idx, req |-> req]
  ELSE LET m == match_with_params(rt.patterns[idx + 1], p, req.params, "local")
       IN IF m.ok
          THEN [ret |-> idx, req |-> [req EXCEPT !.params = m.params, !.resource = idx]]
          ELSE RecognizeFrom(rt, idx + 1, p, req)

\* Router::recognize: ret is Some(idx) as idx, None as None_idx; panic is the
\* unwrap of a path that does not decode to UTF-8.  owned tells whether the
\* decoded path p was a new String (Cow::Owned, which the decoder yields iff it
\* decoded at least one escape), which recognize drops on return.
recognize(rt, req) ==
  IF rt.prefix_len > Len(req.path)
  THEN [ret |-> None_idx, req |-> req, panic |-> FALSE, owned |-> FALSE]
  ELSE LET path == SubSeq(req.path, rt.prefix_len + 1, Len(req.path))
           route_path == IF path = <<>> THEN <<"/">> ELSE path
           p == decode_utf8(percent_decode(route_path))
       IN IF p.err # ""
          THEN [ret |-> None_idx, req |-> req, panic |-> TRUE, owned |-> FALSE]
          ELSE LET r == RecognizeFrom(rt, 0, p.s, req)
               IN [ret |-> r.ret, req |-> r.req, panic |-> FALSE,
                   owned |-> Len(p.s) < Len(route_path)]

\* Resource::resource_path from element k of the pattern, with the caller's
\* elements still unread in iter.
RECURSIVE PathFrom(_, _, _, _)
PathFrom(res, k, iter, path) ==
  IF k > Len(res.elements) THEN [err |-> "", path |-> path]
  ELSE IF ~res.elements[k].var
  THEN PathFrom(res, k + 1, iter, path \o res.elements[k].s)
  ELSE IF iter # <<>>
  THEN PathFrom(res, k + 1, Tail(iter), path \o Head(iter))
  ELSE [err |-> "NotEnoughElements", path |-> <<>>]

\* A resource_path that gives every resource the router's prefix.
prefixed_resource_path(res, rt, elements) ==
  PathFrom(res, 1, elements, rt.prefix \o <<"/">>)

Resource_resource_path(res, rt, elements) ==
  PathFrom(res, 1, elements, IF res.rtp # "External" THEN rt.prefix \o <<"/">> ELSE <<>>)

\* ---------------------------------------------------------------- HttpRequest

\* A request as it arrives: no params, no resource; op/ret record the call that
\* was made with it last and what that call returned, htype/ran the HandlerType
\* chosen for it and the handler Inner::handle runs for that type.
HttpRequest(path) ==
  [state |-> "Some", path |-> path, params |-> <<>>, resource |-> None_idx,
   op |-> "", arg |-> <<>>, ret |-> [kind |-> "", idx |-> None_idx, s |-> <<>>], htype |-> "", ran |-> NoHandler]

\* The params once the function that owned the "local" string has returned:
\* a borrowed (not owned) local was a slice of the request's path all along.
\* A later read of a freed slice can yield the old bytes (junk = "intact"), or
\* others.
Dropped(params, owned, junk) ==
  LET Freed(value) == IF junk = "intact" THEN value ELSE [i \in 1..Len(value) |-> "?"]
  IN [i \in 1..Len(params) |->
        IF params[i].from # "local" THEN params[i]
        ELSE IF owned THEN [params[i] EXCEPT !.value = Freed(@), !.from = "freed"]
        ELSE [params[i] EXCEPT !.from = "path"]]

\* ---------------------------------------------------------------- the router's callers
MaxRoutes == 2

\* The route table entries a router is built from: a resource name, a path
\* pattern, and whether it is an external resource (no handler).
Routes ==
  LET Route(name, path, ext) == [name |-> name, path |-> path, ext |-> ext]
  IN << Route(<<>>, <<"/", "a">>, FALSE),
        Route(<<>>, <<"/", "a", "/", "{", "v", "}">>, FALSE),
        Route(<<"m">>, <<"/", "{", "v", "}", "/", "{", "t", ":", ".", "*", "}">>, FALSE),
        Route(<<"n">>, <<"/", "{", "v", "}", "/", "b">>, FALSE),
        Route(<<"e">>, <<"h", "/", "{", "v", "}">>, TRUE),
        Route(<<>>, <<"/">>, FALSE) >>

Paths ==
  { <<>>, <<"/">>, <<"/", "a">>, <<"/", "a", "/", "b">>, <<"/", "b", "/", "b">>,
    <<"/", "a", "/">>, <<"/", "%", "6", "1">>, <<"/", "a", "/", "%", "6", "2">>,
    <<"/", "a", "/", "%", "F", "F">>, <<"/", "h", "/", "a">>,
    <<"/", "p">>, <<"/", "p", "/", "a">>, <<"/", "x", "/", "a">>,
    <<"/", "p", "/", "%", "6", "1", "/", "b">>, <<"/", "p", "a">> }

\* Router::new for table t, a sequence of distinct entries of Routes: the
\* handler of entry i of the map is the handler registered i-th; an external
\* resource has none.
NewRouter(prefix, t) ==
  /\ router.state = "Absent"
  /\ LET map == [i \in 1..Len(t) |->
                  [pattern |-> IF Routes[t[i]].ext
                               THEN external(Routes[t[i]].name, Routes[t[i]].path)
                               ELSE ResourceNew(Routes[t[i]].name, Routes[t[i]].path),
                   resource |-> IF Routes[t[i]].ext THEN NoHandler
                                ELSE [some |-> TRUE, kind |-> "resource", for |-> (Routes[t[i]].path), k |-> i]]]
     IN router' = RouterNew(prefix, map).router
  /\ UNCHANGED <<netVars, hfut, defaults, pipe, sreq, pl, clock, app, httpapp, request, frame>>

Recognize(path) ==
  /\ router.state = "Some"
  /\ \E r \in {recognize(router, HttpRequest(path))} :
       \E junk \in {"intact", "?"} :
         request' = [r.req EXCEPT
                       !.op = "recognize",
                       !.params = Dropped(@, r.owned, junk),
                       !.ret = IF r.panic THEN [kind |-> "Panic", idx |-> None_idx, s |-> <<>>]
                               ELSE IF r.ret = None_idx THEN [kind |-> "None", idx |-> None_idx, s |-> <<>>]
                               ELSE [kind |-> "Some", idx |-> r.ret, s |-> <<>>]]
  /\ UNCHANGED <<netVars, hfut, defaults, pipe, sreq, pl, clock, app, httpapp, router, frame>>

HasRoute(path) ==
  /\ router.state = "Some"
  /\ request' = [HttpRequest(<<>>) EXCEPT
                   !.op = "has_route", !.arg = path,
                   !.ret = [kind |-> (IF \E i \in 1..Len(router.patterns) : is_match(router.patterns[i], IF path = <<>> THEN <<"/">> ELSE path) THEN "true" ELSE "false"), idx |-> None_idx, s |-> <<>>]]
  /\ UNCHANGED <<netVars, hfut, defaults, pipe, sreq, pl, clock, app, httpapp, router, frame>>

ResourcePath(name, elements) ==
  /\ router.state = "Some"
  /\ \E r \in {IF name \in DOMAIN router.named
                THEN Resource_resource_path(router.named[name].pattern, router, elements)
                ELSE [err |-> "ResourceNotFound", path |-> <<>>]} :
       request' = [HttpRequest(<<>>) EXCEPT
                     !.op = "resource_path", !.arg = <<name, elements>>,
                     !.ret = [kind |-> (IF r.err = "" THEN "Ok" ELSE r.err), idx |-> None_idx, s |-> r.path]]
  /\ UNCHANGED <<netVars, hfut, defaults, pipe, sreq, pl, clock, app, httpapp, router, frame>>

RouterSpec ==
  /\ Start({cfg \in OpenConfigs : cfg.limit_per_host = 0})
  /\ [][\/ \E prefix \in {<<"/">>, <<"/", "p">>}, n \in 0..MaxRoutes :
             \E t \in {s \in [1..n -> 1..Len(Routes)] : \A i, j \in 1..n : s[i] = s[j] => i = j} :
               NewRouter(prefix, t)
        \/ \E path \in Paths : Recognize(path)
        \/ \E path \in Paths : HasRoute(path)
        \/ \E name \in {<<"n">>, <<"m">>, <<"e">>, <<"z">>},
              elements \in {<<>>, <<<<"a">>>>, <<<<"a">>, <<"b">>>>} : ResourcePath(name, elements)]_vars

\* The path recognize matches against: the first prefix_len characters removed,
\* the empty rest taken as "/", percent-decoded.
Routed(rt, path) ==
  LET rest == SubSeq(path, rt.prefix_len + 1, Len(path))
  IN decode_utf8(percent_decode(IF rest = <<>> THEN <<"/">> ELSE rest))

\* C21: recognize returns Some(i) only if pattern i matches the path (the prefix's
\* length removed, percent-decoded, the empty path taken as "/") and no pattern of
\* a lower index does, and it returns None only if no pattern matches such a path
\* (a path shorter than the prefix has none); on Some(i) the request's resource
\* index is i.
C21_FirstMatch ==
  request.state = "Some" /\ request.op = "recognize" =>
    LET p == Routed(router, request.path)
        i == request.ret.idx
    IN /\ request.ret.kind = "Some" =>
            /\ i \in 0..(Len(router.patterns) - 1)
            /\ p.err = ""
            /\ is_match(router.patterns[i + 1], p.s)
            /\ \A j \in 1..i : ~is_match(router.patterns[j], p.s)
            /\ request.resource = i
       /\ request.ret.kind = "None" =>
            \/ Len(request.path) < router.prefix_len
            \/ p.err = "" /\ \A j \in 1..Len(router.patterns) : ~is_match(router.patterns[j], p.s)

\* The second of two patterns was recognized for a percent-encoded path that
\* the first does not match.
C21_Witness ==
  /\ request.state = "Some" /\ request.op = "recognize"
  /\ request.ret.kind = "Some" /\ request.ret.idx = 1
  /\ Len(percent_decode(request.path)) < Len(request.path)
  /\ Len(router.patterns) = 2

\* C22: after a successful dynamic match the request params hold, for each
\* {name} segment of the matched pattern and in segment order, exactly the
\* substring of the path spanned by that segment, and nothing else (patterns
\* tried earlier contribute no params).
C22_ParamsAreSegments ==
  /\ request.state = "Some" /\ request.op = "recognize"
  /\ request.ret.kind = "Some"
  /\ router.patterns[request.ret.idx + 1].dynamic
  => LET res == router.patterns[request.ret.idx + 1]
         c == CapturesFrom(res.re, 1, Routed(router, request.path).s, 1)
     IN /\ Len(request.params) = Len(res.names)
        /\ \A k \in 1..Len(res.names) :
             /\ request.params[k].name = res.names[k]
             /\ request.params[k].value = c.caps[k]

\* C24: recognize returns Some only for a request path that consists of the
\* router's prefix followed by a path matching one of the patterns; a path that
\* does not begin with the prefix is never recognized.
C24_PrefixRequired ==
  /\ request.state = "Some" /\ request.op = "recognize"
  /\ request.ret.kind = "Some"
  => /\ starts_with(request.path, router.prefix)
     /\ \E i \in 1..Len(router.patterns) :
          is_match(router.patterns[i], Routed(router, request.path).s)

\* The strings of ss, one after the other.
RECURSIVE Flatten(_)
Flatten(ss) == IF ss = <<>> THEN <<>> ELSE Head(ss) \o Flatten(Tail(ss))

\* C28: resource_path fails with ResourceNotFound iff the name is not registered;
\* for a registered pattern it fails with NotEnoughElements iff fewer elements
\* than {...} variables are supplied, and otherwise puts the i-th element in the
\* place of the i-th variable, ignoring the elements beyond, after "<prefix>/"
\* for every pattern but an external one, which gets no prefix.
C28_ResourcePath ==
  request.state = "Some" /\ request.op = "resource_path" =>
    LET name == request.arg[1]
        els == request.arg[2]
        registered == name \in DOMAIN router.named
    IN /\ request.ret.kind = "ResourceNotFound" <=> ~registered
       /\ registered =>
            LET res == router.named[name].pattern
                \* the number of {...} variables of the pattern, and of those
                \* among its first k parsed elements
                NVars == Cardinality({i \in 1..Len(res.pattern) : res.pattern[i] = "}"})
                VarsUpTo(k) == Cardinality({i \in 1..k : res.elements[i].var})
            IN /\ request.ret.kind = "NotEnoughElements" <=> Len(els) < NVars
               /\ Len(els) >= NVars =>
                    /\ request.ret.kind = "Ok"
                    /\ request.ret.s =
                         (IF res.rtp = "External" THEN <<>> ELSE router.prefix \o <<"/">>)
                         \o Flatten([k \in 1..Len(res.elements) |->
                                       IF res.elements[k].var THEN els[VarsUpTo(k)]
                                       ELSE res.elements[k].s])

\* Under prefix "/p", a path was generated from a two-variable pattern and two
\* elements, and one from an external pattern with an element to spare.
C28_Witness ==
  /\ request.state = "Some" /\ request.op = "resource_path"
  /\ request.ret.kind = "Ok"
  /\ router.prefix = <<"/", "p">>
  /\ \/ request.arg = <<<<"m">>, <<<<"a">>, <<"b">>>>>> /\ request.ret.s = <<"/", "p", "/", "a", "/", "b">>
     \/ request.arg = <<<<"e">>, <<<<"a">>, <<"b">>>>>> /\ request.ret.s = <<"h", "/", "a">>

\* ================================================================ application
MaxResources == 2
MaxHandlers == 2
MaxExternal == 1
MaxMiddlewares == 1

\* ApplicationParts as App::new makes them, and App.parts after finish has
\* taken them.  The default resource of App::new answers 404 Not Found;
\* default_resource lets the caller change it.
NewParts ==
  [some |-> TRUE, prefix |-> <<"/">>, default |-> [some |-> TRUE, kind |-> "default_not_found", for |-> <<>>, k |-> 0],
   resources |-> <<>>, handlers |-> <<>>, external |-> <<>>, encoding |-> "Auto",
   middlewares |-> 0]
\* Parts that finish would leave in place instead of taking them.
LeftParts == NewParts

NoParts ==
  [some |-> FALSE, prefix |-> <<>>, default |-> NoHandler, resources |-> <<>>,
   handlers |-> <<>>, external |-> <<>>, encoding |-> "", middlewares |-> 0]

\* App::finish on the parts it took: the router and the HttpApplication, of
\* which the fields that routing reads are kept.
finish(parts) ==
  LET prefix == trim_right_matches(trim(parts.prefix), "/")
      r == RouterNew(prefix, parts.resources \o parts.external)
  IN [router |-> r.router,
      httpapp |-> [state |-> "Some", prefix |-> prefix, inner_prefix |-> Len(prefix),
                   default |-> parts.default,
                   resources |-> r.resources, handlers |-> parts.handlers]]

\* The prefix test of HttpApplication::handle and of get_handler.
prefix_matches(prefix, path) ==
  /\ starts_with(path, prefix)
  /\ \/ Len(path) = Len(prefix)
     \/ starts_with(SubSeq(path, Len(prefix) + 1, Len(path)), <<"/">>)

\* The loop of get_handler over the prefix handlers, from idx (0-based).
RECURSIVE HandlerFrom(_, _, _)
HandlerFrom(ha, idx, req) ==
  IF idx >= Len(ha.handlers) THEN [htype |-> "Default", idx |-> None_idx, req |-> req]
  ELSE LET prefix == ha.handlers[idx + 1].prefix
           path == SubSeq(req.path, ha.inner_prefix + 1, Len(req.path))
       IN IF prefix_matches(prefix, path)
          THEN LET rest == SubSeq(req.path, ha.inner_prefix + Len(prefix) + 1, Len(req.path))
               IN [htype |-> "Handler", idx |-> idx,
                   req |-> [req EXCEPT !.params =
                              Append(@, [name |-> <<"t", "a", "i", "l">>,
                                         value |-> IF rest = <<>> THEN <<>> ELSE Tail(rest),
                                         from |-> "path"])]]
          ELSE HandlerFrom(ha, idx + 1, req)

\* HttpApplication::get_handler; panic and owned are those of recognize.
get_handler(ha, rt, req) ==
  LET r == recognize(rt, req)
  IN IF r.panic
     THEN [htype |-> "", idx |-> None_idx, req |-> req, panic |-> TRUE, owned |-> FALSE]
     ELSE IF r.ret # None_idx
     THEN [htype |-> "Normal", idx |-> r.ret, req |-> r.req, panic |-> FALSE, owned |-> r.owned]
     ELSE LET h == HandlerFrom(ha, 0, r.req)
          IN [htype |-> h.htype, idx |-> h.idx, req |-> h.req, panic |-> FALSE,
              owned |-> r.owned]

\* ---------------------------------------------------------------- the application's callers
\* App::new; made counts the HttpApplications the App has produced, last is
\* the last call on the App that did not return normally.
NewApp ==
  /\ app.state = "Absent"
  /\ app' = [state |-> "Some", parts |-> NewParts,
             last |-> [method |-> "new", outcome |-> "Ok"], made |-> 0]
  /\ UNCHANGED <<netVars, hfut, defaults, pipe, sreq, pl, clock, httpapp, router, request, frame>>

\* A builder method: without parts it panics ("Use after finish"), as does
\* external_resource for a name registered twice; a panic ends the program.
Build(method, parts, panics) ==
  /\ app.state = "Some"
  /\ app' = IF app.parts.some /\ ~panics
            THEN [app EXCEPT !.parts = parts]
            ELSE [app EXCEPT !.state = "Panicked",
                             !.last = [method |-> method, outcome |-> "Panic"]]
  /\ UNCHANGED <<netVars, hfut, defaults, pipe, sreq, pl, clock, httpapp, router, request, frame>>

\* App::prefix
AppPrefix(prefix) ==
  Build("prefix",
        [app.parts EXCEPT !.prefix = IF starts_with(prefix, <<"/">>) THEN prefix
                                     ELSE <<"/">> \o prefix],
        FALSE)

\* App::resource
AppResource(path) ==
  /\ app.state = "Some"
  /\ Len(app.parts.resources) < MaxResources
  /\ Build("resource",
           [app.parts EXCEPT !.resources =
              Append(@, [pattern |-> ResourceNew(<<>>, path),
                         resource |-> [some |-> TRUE, kind |-> "resource", for |-> path, k |-> (Len(app.parts.resources) + 1)]])],
           FALSE)

\* App::default_resource
AppDefaultResource ==
  Build("default_resource", [app.parts EXCEPT !.default = [some |-> TRUE, kind |-> "default", for |-> <<>>, k |-> 0]], FALSE)

\* App::default_encoding
AppDefaultEncoding(encoding) ==
  Build("default_encoding", [app.parts EXCEPT !.encoding = encoding], FALSE)

\* App::external_resource: parts.external is a HashMap; finish appends its
\* values, each without a handler.
AppExternalResource(name, url) ==
  LET registered == \E i \in 1..Len(app.parts.external) :
                      app.parts.external[i].pattern.name = name
  IN /\ app.state = "Some"
     /\ Len(app.parts.external) < MaxExternal \/ registered
     /\ Build("external_resource",
              [app.parts EXCEPT !.external = Append(@, [pattern |-> external(name, url),
                                                        resource |-> NoHandler])],
              registered)

\* App::handler
AppHandler(path) ==
  /\ app.state = "Some"
  /\ Len(app.parts.handlers) < MaxHandlers
  /\ Build("handler",
           [app.parts EXCEPT !.handlers =
              Append(@, [prefix |-> trim_right_matches(trim(path), "/"),
                         handler |-> [some |-> TRUE, kind |-> "handler", for |-> path, k |-> (Len(app.parts.handlers) + 1)]])],
           FALSE)

\* App::middleware
AppMiddleware ==
  /\ app.state = "Some"
  /\ app.parts.middlewares < MaxMiddlewares
  /\ Build("middleware", [app.parts EXCEPT !.middlewares = @ + 1], FALSE)

\* App::finish, and the callers of finish: into_handler (expects the parts
\* first) and Iterator::next (None without parts).
Finish(via) ==
  /\ app.state = "Some"
  /\ IF app.parts.some
     THEN \E f \in {finish(app.parts)} :
            /\ httpapp' = f.httpapp
            /\ router' = f.router
            /\ app' = [app EXCEPT !.parts = NoParts, !.made = @ + 1]
     ELSE /\ app' = IF via = "next" THEN app
                    ELSE [app EXCEPT !.state = "Panicked",
                                     !.last = [method |-> via, outcome |-> "Panic"]]
          /\ UNCHANGED <<httpapp, router>>
  /\ UNCHANGED <<netVars, hfut, defaults, pipe, sreq, pl, clock, request, frame>>

\* HttpApplication::handle, and Inner::handle for the type it chose (ran is the
\* handler that runs for the HandlerType).
HandleRequest(path) ==
  /\ (httpapp.state = "Some" /\ app.state = "Some")
  /\ IF prefix_matches(httpapp.prefix, path)
     THEN \E g \in {get_handler(httpapp, router, HttpRequest(path))} :
          \E junk \in {"intact", "?"} :
            request' = [g.req EXCEPT
                          !.op = "handle",
                          !.params = Dropped(@, g.owned, junk),
                          !.ret = IF g.panic THEN [kind |-> "Panic", idx |-> None_idx, s |-> <<>>]
                                  ELSE [kind |-> "Pipeline", idx |-> g.idx, s |-> <<>>],
                          !.htype = g.htype,
                          !.ran = IF g.panic THEN NoHandler
                                  ELSE IF g.htype = "Normal" THEN httpapp.resources[g.idx + 1]
                                  ELSE IF g.htype = "Handler"
                                  THEN httpapp.handlers[g.idx + 1].handler
                                  ELSE httpapp.default]
     ELSE request' = [HttpRequest(path) EXCEPT !.op = "handle",
                                               !.ret = [kind |-> "Err", idx |-> None_idx, s |-> <<>>]]
  /\ UNCHANGED <<netVars, hfut, defaults, pipe, sreq, pl, clock, app, httpapp, router, frame>>

AppSpec ==
  /\ Start({cfg \in OpenConfigs : cfg.limit_per_host = 0})
  /\ [][\/ NewApp
        \/ AppPrefix(<<"p", "/">>)
        \/ \E path \in {<<"/", "a">>, <<"/", "{", "v", "}", "/", "b">>} : AppResource(path)
        \/ AppDefaultResource
        \/ AppDefaultEncoding("Identity")
        \/ AppExternalResource(<<"e">>, <<"/", "h", "/", "{", "v", "}">>)
        \/ \E path \in {<<"/", "h">>, <<"/">>} : AppHandler(path)
        \/ AppMiddleware
        \/ \E via \in {"finish", "into_handler", "next"} : Finish(via)
        \/ \E path \in Paths : HandleRequest(path)
        \/ \E path \in Paths : (httpapp.state = "Some" /\ app.state = "Some") /\ HasRoute(path)]_vars

\* C27: once finish has taken the parts of an App, every later call of finish
\* (or into_handler) or of a builder method on that App panics and leaves the
\* HttpApplication and the router as they are, and the App never produces a
\* second HttpApplication.
C27_FinishIsTerminal ==
  [][/\ (app.state = "Some" /\ ~app.parts.some /\ app' # app) =>
          /\ app'.state = "Panicked"
          /\ app'.last.outcome = "Panic"
          /\ app'.made = app.made
          /\ UNCHANGED <<httpapp, router>>
     /\ app'.state # "Absent" => app'.made <= 1]_vars

\* After a finish, a call of resource panicked.
C27_Witness ==
  /\ app.state = "Panicked"
  /\ app.made = 1
  /\ app.last = [method |-> "resource", outcome |-> "Panic"]

\* C26: an external resource serves URL generation only.  The router's patterns
\* hold no external resource, so recognize and has_route never consider one;
\* pattern i and handler i were registered together; a request recognized as
\* Normal(i) is run by the handler registered with pattern i; and has_route
\* answers true only for a path that a registered (not external) resource matches.
C26_ExternalOnlyForUrls ==
  httpapp.state = "Some" =>
    /\ Len(router.patterns) = Len(httpapp.resources)
    /\ \A i \in 1..Len(router.patterns) :
         /\ router.patterns[i].rtp # "External"
         /\ httpapp.resources[i].kind = "resource"
         /\ httpapp.resources[i].for = router.patterns[i].pattern
    /\ \A n \in DOMAIN router.named :
         router.named[n].external <=> router.named[n].pattern.rtp = "External"
    /\ (request.state = "Some" /\ request.op = "handle" /\ request.htype = "Normal") =>
         /\ request.ran.kind = "resource"
         /\ request.ran.for = router.patterns[request.ret.idx + 1].pattern
         /\ request.ran.k = request.ret.idx + 1
    /\ (request.state = "Some" /\ request.op = "has_route" /\ request.ret.kind = "true") =>
         \E i \in 1..Len(httpapp.resources) :
           is_match(ResourceNew(<<>>, httpapp.resources[i].for),
                    IF request.arg = <<>> THEN <<"/">> ELSE request.arg)

\* With the external resource "e" registered for "/h/{v}" next to two resources,
\* the request "/h/a" was not routed to a resource.
C26_Witness ==
  /\ httpapp.state = "Some"
  /\ <<"e">> \in DOMAIN router.named
  /\ Len(httpapp.resources) = 2
  /\ request.state = "Some" /\ request.op = "handle"
  /\ request.path = <<"/", "h", "/", "a">>
  /\ request.htype # "Normal"

\* The request path starts with the application prefix and ends there or goes
\* on with "/".
UnderPrefix(path) ==
  /\ starts_with(path, httpapp.prefix)
  /\ \/ Len(path) = Len(httpapp.prefix)
     \/ path[Len(httpapp.prefix) + 1] = "/"

\* C23: HttpApplication::handle returns a pipeline task iff the request path
\* starts with the application prefix and either ends there or has "/" right
\* after it; otherwise it returns the request, unhandled and unmodified.
C23_AcceptsUnderPrefix ==
  request.state = "Some" /\ request.op = "handle" =>
    /\ request.ret.kind = "Pipeline" <=> UnderPrefix(request.path)
    /\ ~UnderPrefix(request.path) =>
         /\ request.ret.kind = "Err"
         /\ request.params = <<>>
         /\ request.resource = None_idx
         /\ request.htype = ""

\* C25: for an accepted request the handler is the router's match if there is
\* one (Normal); otherwise the first prefix handler, in registration order, that
\* fits the path after the application prefix (Handler), with params["tail"] the
\* remainder without its one leading "/"; otherwise the default resource
\* (Default), which is the 404 one unless default_resource replaced it.
C25_HandlerChoice ==
  (request.state = "Some" /\ request.op = "handle" /\ UnderPrefix(request.path)) =>
    LET path == request.path
        least(S) == CHOOSE i \in S : \A j \in S : i <= j
        \* the patterns, by 0-based index, that match the path the router sees
        p == Routed(router, path)
        Matching ==
          IF p.err # "" THEN {}
          ELSE {i \in 0..(Len(router.patterns) - 1) : is_match(router.patterns[i + 1], p.s)}
        \* the prefix handlers, by 0-based index, that fit the path after the
        \* application prefix: it starts with the handler's prefix and ends
        \* there or goes on with "/"
        after == SubSeq(path, Len(httpapp.prefix) + 1, Len(path))
        Fitting ==
          {i \in 0..(Len(httpapp.handlers) - 1) :
             LET prefix == httpapp.handlers[i + 1].prefix
             IN /\ starts_with(after, prefix)
                /\ Len(after) = Len(prefix) \/ after[Len(prefix) + 1] = "/"}
    IN IF Matching # {}
       THEN /\ request.htype = "Normal"
            /\ request.ret.idx = least(Matching)
            /\ request.ran = httpapp.resources[least(Matching) + 1]
       ELSE IF Fitting # {}
       THEN LET i == least(Fitting)
                rest == SubSeq(path, Len(httpapp.prefix) + Len(httpapp.handlers[i + 1].prefix) + 1,
                               Len(path))
            IN /\ request.htype = "Handler"
               /\ request.ret.idx = i
               /\ request.ran = httpapp.handlers[i + 1].handler
               /\ request.params = <<[name |-> <<"t", "a", "i", "l">>,
                                      value |-> IF rest = <<>> THEN <<>> ELSE Tail(rest),
                                      from |-> "path"]>>
       ELSE /\ request.htype = "Default"
            /\ request.ran = httpapp.default
            /\ request.ran \in {[some |-> TRUE, kind |-> kind, for |-> <<>>, k |-> 0] :
                                  kind \in {"default_not_found", "default"}}

\* ================================================================ WebSocket frames
\* OpCode as a u8 (Into<u8>), and a u8's low four bits as an OpCode (From<u8>).
OpCodes == [Continue |-> 0, Text |-> 1, Binary |-> 2, Close |-> 8, Ping |-> 9, Pong |-> 10]

OpCodeFrom(byte) ==
  IF \E c \in DOMAIN OpCodes : OpCodes[c] = byte
  THEN CHOOSE c \in DOMAIN OpCodes : OpCodes[c] = byte
  ELSE "Bad"

\* A payload of len bytes whose byte i (from 0) is pat[(i % 4) + 1]: any length
\* is written with four bytes, and a mask key, which repeats every four bytes,
\* maps such a payload to such a payload.
Payload(len, pat) == [len |-> len, pat |-> [j \in 1..4 |-> IF j <= len THEN pat[j] ELSE 0]]

\* apply_mask(buf, mask): byte i of buf becomes buf[i] ^ mask[i % 4]; Xor is
\* a ^ b on u8.
apply_mask(buf, mask) ==
  LET RECURSIVE Xor(_, _)
      Xor(a, b) ==
        IF a = 0 THEN b
        ELSE IF b = 0 THEN a
        ELSE ((a + b) % 2) + 2 * Xor(a \div 2, b \div 2)
  IN Payload(buf.len, [j \in 1..4 |-> Xor(buf.pat[j], mask[j])])

\* n as `bytes` big-endian bytes (BigEndian::write_u16 / write_u64).
RECURSIVE write_uint(_, _)
write_uint(n, bytes) ==
  IF bytes = 0 THEN <<>> ELSE Append(write_uint(n \div 256, bytes - 1), n % 256)

\* Byte i (from 0) of the wire.
WireByte(w, i) ==
  IF i < Len(w.head) THEN w.head[i + 1]
  ELSE IF i < Len(w.head) + w.payload.len THEN w.payload.pat[((i - Len(w.head)) % 4) + 1]
  ELSE 0

\* A Frame::message that writes every length of 126 or more as a u16.
message_u16(payload, code, finished, genmask, mask) ==
  LET one == IF finished THEN 128 + OpCodes[code] ELSE OpCodes[code]
      two == IF genmask THEN 128 ELSE 0
      head == IF payload.len < 126 THEN <<one, two + payload.len>>
              ELSE <<one, two + 126>> \o write_uint(payload.len % 65536, 2)
  IN IF genmask THEN [head |-> head \o mask, payload |-> apply_mask(payload, mask)]
     ELSE [head |-> head, payload |-> payload]

\* Frame::message with the mask key that rand::random() returned.
Frame_message(payload, code, finished, genmask, mask) ==
  LET one == IF finished THEN 128 + OpCodes[code] ELSE OpCodes[code]
      payload_len == payload.len
      two == IF genmask THEN 128 ELSE 0
      head == IF payload_len < 126 THEN <<one, two + (payload_len % 256)>>
              ELSE IF payload_len <= 65535
              THEN <<one, two + 126>> \o write_uint(payload_len % 65536, 2)
              ELSE <<one, two + 127>> \o write_uint(payload_len, 8)
  IN IF genmask THEN [head |-> head \o mask, payload |-> apply_mask(payload, mask)]
     ELSE [head |-> head, payload |-> payload]

\* A Poll without a frame: Ready(None), NotReady or Err(err); n is the number an
\* error carries (InvalidOpcode(first & 0x0F), InvalidLength(length)).
ParsedNone ==
  [kind |-> "None", err |-> "", n |-> 0, finished |-> FALSE, opcode |-> "",
   payload |-> Payload(0, <<0, 0, 0, 0>>)]

\* Frame::default(): the close frame without payload.
DefaultFrame ==
  [kind |-> "Frame", err |-> "", n |-> 0, finished |-> TRUE, opcode |-> "Close",
   payload |-> Payload(0, <<0, 0, 0, 0>>)]

\* PayloadHelper::readexactly(length) after drop_payload(idx).
readexactly(w, idx, length) == Payload(length, [j \in 1..4 |-> WireByte(w, idx + j - 1)])

\* A Frame::parse that hands the payload over as it came.
parse_raw(w, server, max_size, got, eof) ==
  IF got < 2 THEN [res |-> ParsedNone, used |-> 0]
  ELSE [res |-> [kind |-> "Frame", err |-> "", n |-> 0,
                 finished |-> WireByte(w, 0) >= 128,
                 opcode |-> OpCodeFrom(WireByte(w, 0) % 16),
                 payload |-> readexactly(w, Len(w.head), w.payload.len)],
        used |-> Len(w.head) + w.payload.len]

\* A Frame::parse that removes the header before it checks the size.
parse_dropping_prefix(w, server, max_size, got, eof) ==
  LET RECURSIVE read_uint(_, _)
      read_uint(buf, bytes) ==
        IF bytes = 0 THEN 0 ELSE 256 * read_uint(buf, bytes - 1) + buf[bytes]
      \* Async::Ready(None) of an ended stream, Async::NotReady of a pending one
      Short == [res |-> IF eof THEN ParsedNone ELSE [ParsedNone EXCEPT !.kind = "NotReady"],
                used |-> 0]
      Err(e, n) == [ParsedNone EXCEPT !.kind = "Err", !.err = e, !.n = n]
      first == WireByte(w, 0)
      second == WireByte(w, 1)
      finished == first >= 128
      masked == second >= 128
      opcode == OpCodeFrom(first % 16)
      len == second % 128
      length == IF len = 126 THEN read_uint([j \in 1..2 |-> WireByte(w, 1 + j)], 2)
                ELSE IF len = 127 THEN read_uint([j \in 1..8 |-> WireByte(w, 1 + j)], 8)
                ELSE len
      idx0 == IF len = 126 THEN 4 ELSE IF len = 127 THEN 10 ELSE 2
      idx == IF server THEN idx0 + 4 ELSE idx0
      mask == [j \in 1..4 |-> WireByte(w, idx0 + j - 1)]
  IN IF got < 2 THEN Short
     ELSE IF ~masked /\ server THEN [res |-> Err("UnmaskedFrame", 0), used |-> 0]
     ELSE IF masked /\ ~server THEN [res |-> Err("MaskedFrame", 0), used |-> 0]
     ELSE IF len = 126 /\ got < 4 THEN Short
     ELSE IF len = 127 /\ got < 10 THEN Short
     ELSE IF length > max_size THEN [res |-> Err("Overflow", 0), used |-> idx0]
     ELSE IF server /\ got < idx0 + 4 THEN Short
     ELSE IF got < idx + length THEN Short
     ELSE IF opcode = "Bad" THEN [res |-> Err("InvalidOpcode", first % 16), used |-> idx + length]
     ELSE IF opcode \in {"Ping", "Pong"} /\ length > 125
     THEN [res |-> Err("InvalidLength", length), used |-> idx + length]
     ELSE IF opcode = "Close" /\ length > 125 THEN [res |-> DefaultFrame, used |-> idx + length]
     ELSE [res |-> [kind |-> "Frame", err |-> "", n |-> 0, finished |-> finished, opcode |-> opcode,
                    payload |-> IF server THEN apply_mask(readexactly(w, idx, length), mask)
                                          ELSE readexactly(w, idx, length)],
           used |-> idx + length]

\* A Frame::parse that checks the size once the mask key is there.
parse_overflow_late(w, server, max_size, got, eof) ==
  LET RECURSIVE read_uint(_, _)
      read_uint(buf, bytes) ==
        IF bytes = 0 THEN 0 ELSE 256 * read_uint(buf, bytes - 1) + buf[bytes]
      \* Async::Ready(None) of an ended stream, Async::NotReady of a pending one
      Short == [res |-> IF eof THEN ParsedNone ELSE [ParsedNone EXCEPT !.kind = "NotReady"],
                used |-> 0]
      Err(e, n) == [ParsedNone EXCEPT !.kind = "Err", !.err = e, !.n = n]
      first == WireByte(w, 0)
      second == WireByte(w, 1)
      finished == first >= 128
      masked == second >= 128
      opcode == OpCodeFrom(first % 16)
      len == second % 128
      length == IF len = 126 THEN read_uint([j \in 1..2 |-> WireByte(w, 1 + j)], 2)
                ELSE IF len = 127 THEN read_uint([j \in 1..8 |-> WireByte(w, 1 + j)], 8)
                ELSE len
      idx0 == IF len = 126 THEN 4 ELSE IF len = 127 THEN 10 ELSE 2
      idx == IF server THEN idx0 + 4 ELSE idx0
      mask == [j \in 1..4 |-> WireByte(w, idx0 + j - 1)]
  IN IF got < 2 THEN Short
     ELSE IF ~masked /\ server THEN [res |-> Err("UnmaskedFrame", 0), used |-> 0]
     ELSE IF masked /\ ~server THEN [res |-> Err("MaskedFrame", 0), used |-> 0]
     ELSE IF len = 126 /\ got < 4 THEN Short
     ELSE IF len = 127 /\ got < 10 THEN Short
     ELSE IF server /\ got < idx0 + 4 THEN Short
     ELSE IF length > max_size THEN [res |-> Err("Overflow", 0), used |-> 0]
     ELSE IF got < idx + length THEN Short
     ELSE IF opcode = "Bad" THEN [res |-> Err("InvalidOpcode", first % 16), used |-> idx + length]
     ELSE IF opcode \in {"Ping", "Pong"} /\ length > 125
     THEN [res |-> Err("InvalidLength", length), used |-> idx + length]
     ELSE IF opcode = "Close" /\ length > 125 THEN [res |-> DefaultFrame, used |-> idx + length]
     ELSE [res |-> [kind |-> "Frame", err |-> "", n |-> 0, finished |-> finished, opcode |-> opcode,
                    payload |-> IF server THEN apply_mask(readexactly(w, idx, length), mask)
                                          ELSE readexactly(w, idx, length)],
           used |-> idx + length]

\* A Frame::parse that treats a long Close frame like a long Ping.
parse_close_rejected(w, server, max_size, got, eof) ==
  LET RECURSIVE read_uint(_, _)
      read_uint(buf, bytes) ==
        IF bytes = 0 THEN 0 ELSE 256 * read_uint(buf, bytes - 1) + buf[bytes]
      \* Async::Ready(None) of an ended stream, Async::NotReady of a pending one
      Short == [res |-> IF eof THEN ParsedNone ELSE [ParsedNone EXCEPT !.kind = "NotReady"],
                used |-> 0]
      Err(e, n) == [ParsedNone EXCEPT !.kind = "Err", !.err = e, !.n = n]
      first == WireByte(w, 0)
      second == WireByte(w, 1)
      finished == first >= 128
      masked == second >= 128
      opcode == OpCodeFrom(first % 16)
      len == second % 128
      length == IF len = 126 THEN read_uint([j \in 1..2 |-> WireByte(w, 1 + j)], 2)
                ELSE IF len = 127 THEN read_uint([j \in 1..8 |-> WireByte(w, 1 + j)], 8)
                ELSE len
      idx0 == IF len = 126 THEN 4 ELSE IF len = 127 THEN 10 ELSE 2
      idx == IF server THEN idx0 + 4 ELSE idx0
      mask == [j \in 1..4 |-> WireByte(w, idx0 + j - 1)]
  IN IF got < 2 THEN Short
     ELSE IF ~masked /\ server THEN [res |-> Err("UnmaskedFrame", 0), used |-> 0]
     ELSE IF masked /\ ~server THEN [res |-> Err("MaskedFrame", 0), used |-> 0]
     ELSE IF len = 126 /\ got < 4 THEN Short
     ELSE IF len = 127 /\ got < 10 THEN Short
     ELSE IF length > max_size THEN [res |-> Err("Overflow", 0), used |-> 0]
     ELSE IF server /\ got < idx0 + 4 THEN Short
     ELSE IF got < idx + length THEN Short
     ELSE IF opcode = "Bad" THEN [res |-> Err("InvalidOpcode", first % 16), used |-> idx + length]
     ELSE IF opcode \in {"Ping", "Pong"} /\ length > 125
     THEN [res |-> Err("InvalidLength", length), used |-> idx + length]
     ELSE IF opcode = "Close" /\ length > 125 THEN [res |-> Err("InvalidLength", length), used |-> idx + length]
     ELSE [res |-> [kind |-> "Frame", err |-> "", n |-> 0, finished |-> finished, opcode |-> opcode,
                    payload |-> IF server THEN apply_mask(readexactly(w, idx, length), mask)
                                          ELSE readexactly(w, idx, length)],
           used |-> idx + length]

\* Frame::parse of a helper that holds the first got bytes of w, over a stream
\* that has ended (eof) or is pending.  res is the Poll it returns, used the
\* number of bytes it removed from the helper (drop_payload(idx) and
\* readexactly(length)); copy and can_read remove nothing.  read_uint is
\* NetworkEndian::read_uint.
Frame_parse(w, server, max_size, got, eof) ==
  LET RECURSIVE read_uint(_, _)
      read_uint(buf, bytes) ==
        IF bytes = 0 THEN 0 ELSE 256 * read_uint(buf, bytes - 1) + buf[bytes]
      \* Async::Ready(None) of an ended stream, Async::NotReady of a pending one
      Short == [res |-> IF eof THEN ParsedNone ELSE [ParsedNone EXCEPT !.kind = "NotReady"],
                used |-> 0]
      Err(e, n) == [ParsedNone EXCEPT !.kind = "Err", !.err = e, !.n = n]
      first == WireByte(w, 0)
      second == WireByte(w, 1)
      finished == first >= 128
      masked == second >= 128
      opcode == OpCodeFrom(first % 16)
      len == second % 128
      length == IF len = 126 THEN read_uint([j \in 1..2 |-> WireByte(w, 1 + j)], 2)
                ELSE IF len = 127 THEN read_uint([j \in 1..8 |-> WireByte(w, 1 + j)], 8)
                ELSE len
      idx0 == IF len = 126 THEN 4 ELSE IF len = 127 THEN 10 ELSE 2
      idx == IF server THEN idx0 + 4 ELSE idx0
      mask == [j \in 1..4 |-> WireByte(w, idx0 + j - 1)]
  IN IF got < 2 THEN Short
     ELSE IF ~masked /\ server THEN [res |-> Err("UnmaskedFrame", 0), used |-> 0]
     ELSE IF masked /\ ~server THEN [res |-> Err("MaskedFrame", 0), used |-> 0]
     ELSE IF len = 126 /\ got < 4 THEN Short
     ELSE IF len = 127 /\ got < 10 THEN Short
     ELSE IF length > max_size THEN [res |-> Err("Overflow", 0), used |-> 0]
     ELSE IF server /\ got < idx0 + 4 THEN Short
     ELSE IF got < idx + length THEN Short
     ELSE IF opcode = "Bad" THEN [res |-> Err("InvalidOpcode", first % 16), used |-> idx + length]
     ELSE IF opcode \in {"Ping", "Pong"} /\ length > 125
     THEN [res |-> Err("InvalidLength", length), used |-> idx + length]
     ELSE IF opcode = "Close" /\ length > 125 THEN [res |-> DefaultFrame, used |-> idx + length]
     ELSE [res |-> [kind |-> "Frame", err |-> "", n |-> 0, finished |-> finished, opcode |-> opcode,
                    payload |-> IF server THEN apply_mask(readexactly(w, idx, length), mask)
                                          ELSE readexactly(w, idx, length)],
           used |-> idx + length]

\* ---------------------------------------------------------------- the codec's callers
\* Frame::message(data, code, finished, genmask); rand::random() gives mask.
Message(len, pat, code, finished, genmask, mask) ==
  /\ frame.state = "Absent"
  /\ frame' = [state |-> "Emitted",
               msg |-> [finished |-> finished, opcode |-> code, payload |-> Payload(len, pat)],
               genmask |-> genmask,
               mask |-> IF genmask THEN mask ELSE <<0, 0, 0, 0>>,
               wire |-> Frame_message(Payload(len, pat), code, finished, genmask, mask),
               server |-> FALSE, max_size |-> 0, got |-> 0, eof |-> FALSE, used |-> 0,
               res |-> ParsedNone, prev |-> ParsedNone]
  /\ UNCHANGED <<netVars, hfut, defaults, pipe, sreq, pl, clock, app, httpapp, router, request>>

\* A peer that is not this codec sends a frame whose opcode is one of the
\* reserved ones: the bytes of a Text frame with another low nibble.
Reserved(nibble, len, genmask) ==
  /\ frame.state = "Absent"
  /\ \E w \in {Frame_message(Payload(len, <<1, 2, 3, 4>>), "Text", TRUE, genmask, <<48, 48, 48, 49>>)} :
       frame' = [state |-> "Emitted",
                 msg |-> [finished |-> TRUE, opcode |-> "Bad",
                          payload |-> Payload(len, <<1, 2, 3, 4>>)],
                 genmask |-> genmask,
                 mask |-> IF genmask THEN <<48, 48, 48, 49>> ELSE <<0, 0, 0, 0>>,
                 wire |-> [w EXCEPT !.head[1] = 128 + nibble],
                 server |-> FALSE, max_size |-> 0, got |-> 0, eof |-> FALSE, used |-> 0,
                 res |-> ParsedNone, prev |-> ParsedNone]
  /\ UNCHANGED <<netVars, hfut, defaults, pipe, sreq, pl, clock, app, httpapp, router, request>>

\* Frame::parse(pl, server, max_size) when the stream has delivered the first
\* got bytes of the emitted ones, and a second parse of the same helper once
\* the rest has arrived (or at the same bytes, when the stream had ended).  The
\* helper holds the delivered bytes less the frame.used ones that the first
\* parse removed (PayloadHelper::drop_payload).
Parse(server, max_size, got, eof) ==
  LET total == Len(frame.wire.head) + frame.wire.payload.len
      h == Len(frame.wire.head)
      k == frame.used
      rest == IF k <= h
              THEN [head |-> SubSeq(frame.wire.head, k + 1, h), payload |-> frame.wire.payload]
              ELSE [head |-> <<>>,
                    payload |-> Payload(total - k,
                                        [j \in 1..4 |-> WireByte(frame.wire, k + j - 1)])]
  IN /\ frame.state \in {"Emitted", "Parsed"}
     /\ got <= total
     /\ frame.state = "Parsed" =>
          /\ got = IF frame.eof THEN frame.got ELSE total
          /\ frame.eof => eof
     /\ \E r \in {Frame_parse(rest, server, max_size, got - k, eof)} :
          frame' = [frame EXCEPT
                      !.state = IF frame.state = "Emitted" THEN "Parsed" ELSE "Reparsed",
                      !.server = server, !.max_size = max_size,
                      !.got = got, !.eof = eof,
                      !.used = @ + r.used,
                      !.res = r.res,
                      !.prev = frame.res]
     /\ UNCHANGED <<netVars, hfut, defaults, pipe, sreq, pl, clock, app, httpapp, router, request>>

FrameSpec ==
  /\ Start({cfg \in OpenConfigs : cfg.limit_per_host = 0})
  /\ [][\/ \E len \in {0, 1, 125, 126, 65535, 65536},
              pat \in {<<1, 2, 3, 4>>, <<49, 0, 255, 128>>},
              code \in DOMAIN OpCodes, finished \in BOOLEAN, genmask \in BOOLEAN :
             \E mask \in IF genmask THEN {<<0, 0, 0, 0>>, <<48, 48, 48, 49>>, <<255, 1, 128, 7>>}
                         ELSE {<<0, 0, 0, 0>>} :
               Message(len, pat, code, finished, genmask, mask)
        \/ \E nibble \in {3, 11, 15}, len \in {0, 126}, genmask \in BOOLEAN :
             Reserved(nibble, len, genmask)
        \/ \E server \in BOOLEAN, max_size \in {1, 125, 65536}, eof \in BOOLEAN,
              short \in {0, 1, 2, 3, 4, 6, 8, 10, 14} :
             \/ Parse(server, max_size, short, eof)
             \/ /\ short <= 1
                /\ frame.state # "Absent"
                /\ Parse(server, max_size, Len(frame.wire.head) + frame.wire.payload.len - short, eof)]_vars

\* A frame was emitted and parsed in the same role (genmask on one side, server
\* on the other, or neither), in full, with max_size at least the payload length.
RoundTrip ==
  /\ frame.state = "Parsed"
  /\ frame.server = frame.genmask
  /\ frame.got = Len(frame.wire.head) + frame.wire.payload.len
  /\ frame.max_size >= frame.msg.payload.len

\* The parse returned a frame with the finished bit, opcode and payload of the
\* message.
SameFrame ==
  /\ frame.res.kind = "Frame"
  /\ frame.res.finished = frame.msg.finished
  /\ frame.res.opcode = frame.msg.opcode
  /\ frame.res.payload = frame.msg.payload

\* C29 as stated: for every opcode in {Text, Binary, Ping, Pong} and every
\* payload of length 0, 1, 125, 126, 65535 or 65536, parsing the bytes that
\* Frame::message produced yields a frame with the same finished bit, opcode and
\* payload.
C29_RoundTripAll ==
  (RoundTrip /\ frame.msg.opcode \in {"Text", "Binary", "Ping", "Pong"}) => SameFrame

\* C29, amended: the round trip holds for Text and Binary with each of these
\* lengths and for Ping and Pong with a payload of at most 125 bytes (0, 1, 125);
\* a Ping or Pong with a longer payload is rejected by parse with InvalidLength.
C29_RoundTrip ==
  (RoundTrip /\ frame.msg.opcode \in {"Text", "Binary", "Ping", "Pong"}) =>
    IF frame.msg.opcode \in {"Ping", "Pong"} /\ frame.msg.payload.len > 125
    THEN frame.res = [ParsedNone EXCEPT !.kind = "Err", !.err = "InvalidLength",
                                        !.n = frame.msg.payload.len]
    ELSE SameFrame

\* A masked, unfinished Binary frame of 65536 bytes made the round trip.
C29_Witness ==
  /\ RoundTrip /\ SameFrame
  /\ frame.genmask /\ frame.mask = <<255, 1, 128, 7>>
  /\ ~frame.msg.finished
  /\ frame.msg.opcode = "Binary"
  /\ frame.msg.payload = Payload(65536, <<49, 0, 255, 128>>)
  /\ Len(frame.wire.head) = 14

\* A frame came out of parsing, as a server, the complete bytes of a message
\* emitted with genmask.
Unmasked ==
  /\ frame.state = "Parsed"
  /\ frame.genmask /\ frame.server
  /\ frame.got = Len(frame.wire.head) + frame.wire.payload.len
  /\ frame.res.kind = "Frame"

\* C30 as stated: unmasking the masked payload with the same key gives back the
\* payload; a frame emitted with genmask and parsed as a server carries the
\* original payload, for every key; a parsed frame never carries masked bytes.
C30_MaskUndoneAll ==
  frame.state # "Absent" =>
    /\ apply_mask(apply_mask(frame.msg.payload, frame.mask), frame.mask) = frame.msg.payload
    /\ Unmasked => frame.res.payload = frame.msg.payload
    /\ (frame.state = "Parsed" /\ frame.res.kind = "Frame") =>
         frame.res.payload \in {frame.msg.payload, Payload(0, <<0, 0, 0, 0>>)}

\* C30, amended: the same, except that for a Close frame of more than 125 bytes
\* parse returns the default close frame, whose payload is empty, instead of the
\* frame with the original payload.
C30_MaskUndone ==
  frame.state # "Absent" =>
    /\ apply_mask(apply_mask(frame.msg.payload, frame.mask), frame.mask) = frame.msg.payload
    /\ Unmasked =>
         IF frame.msg.opcode = "Close" /\ frame.msg.payload.len > 125
         THEN frame.res = DefaultFrame
         ELSE frame.res.payload = frame.msg.payload
    /\ (frame.state = "Parsed" /\ frame.res.kind = "Frame") =>
         frame.res.payload \in {frame.msg.payload, Payload(0, <<0, 0, 0, 0>>)}

\* A Text frame of 125 bytes went over the wire masked with a key that changes
\* every byte, and came out of the parse with its payload.
C30_Witness ==
  /\ Unmasked
  /\ frame.mask = <<255, 1, 128, 7>>
  /\ frame.msg.opcode = "Text"
  /\ frame.msg.payload = Payload(125, <<1, 2, 3, 4>>)
  /\ frame.wire.payload = Payload(125, <<254, 3, 131, 3>>)
  /\ frame.res.payload = frame.msg.payload


\* C31: Frame::parse removes bytes from the input only when a whole frame is
\* buffered, and then it removes the whole frame; when it returns NotReady, the
\* end of the stream, UnmaskedFrame, MaskedFrame or Overflow it removes nothing,
\* so a following parse of the same input, complete, in the role that fits the
\* mask bit and with max_size no less than the payload, returns the frame (a
\* frame that parse accepts: a known opcode, and at most 125 bytes if it is a
\* control frame).
C31_ParseKeepsInput ==
  LET total == Len(frame.wire.head) + frame.wire.payload.len
      Kept(res) ==
        \/ res.kind \in {"NotReady", "None"}
        \/ res.kind = "Err" /\ res.err \in {"UnmaskedFrame", "MaskedFrame", "Overflow"}
  IN /\ frame.state \in {"Parsed", "Reparsed"} =>
          /\ frame.used \in {0, total}
          /\ frame.used > 0 => frame.got = total
          /\ (Kept(frame.res) /\ (frame.state = "Parsed" \/ Kept(frame.prev))) => frame.used = 0
     /\ ( /\ frame.state = "Reparsed"
          /\ Kept(frame.prev)
          /\ frame.got = total
          /\ frame.server = frame.genmask
          /\ frame.max_size >= frame.msg.payload.len
          /\ frame.msg.opcode # "Bad"
          /\ frame.msg.opcode \in {"Close", "Ping", "Pong"} => frame.msg.payload.len <= 125 ) =>
          SameFrame

\* A client parse of a masked 65536-byte Binary frame failed with MaskedFrame;
\* the parse that followed, as a server, found every byte in place and returned
\* the frame.
C31_Witness ==
  /\ frame.state = "Reparsed"
  /\ frame.prev.kind = "Err" /\ frame.prev.err = "MaskedFrame"
  /\ frame.msg.opcode = "Binary"
  /\ frame.msg.payload = Payload(65536, <<49, 0, 255, 128>>)
  /\ frame.mask = <<255, 1, 128, 7>>
  /\ frame.used = 65536 + 14
  /\ SameFrame

\* C32: Frame::parse fails with Overflow iff the mask bit agrees with the role
\* and the declared payload length (7-bit, 16-bit or 64-bit form) exceeds
\* max_size; the header decides (the two bytes and the extended length), no
\* mask key or payload byte has to have arrived; a frame whose length is at most
\* max_size never yields Overflow.
C32_OverflowFromHeader ==
  frame.state = "Parsed" =>
    LET length == frame.msg.payload.len
        header == IF length < 126 THEN 2 ELSE IF length <= 65535 THEN 4 ELSE 10
    IN (frame.res.kind = "Err" /\ frame.res.err = "Overflow")
         <=> (frame.got >= header /\ frame.server = frame.genmask /\ length > frame.max_size)

\* A server had the ten header bytes of a masked 65536-byte frame, no mask key
\* and no payload, and answered Overflow for max_size 125.
C32_Witness ==
  /\ frame.state = "Parsed"
  /\ frame.server /\ frame.genmask
  /\ frame.msg.payload.len = 65536
  /\ frame.got = 10
  /\ frame.max_size = 125
  /\ frame.res.kind = "Err" /\ frame.res.err = "Overflow"
  /\ frame.used = 0

\* C33: once a frame is completely buffered (and passed the role and size
\* checks), parse returns InvalidOpcode for an opcode outside {0, 1, 2, 8, 9,
\* 10}, InvalidLength(n) for a Ping or Pong with payload length n > 125, and for
\* a Close with payload length > 125 the default close frame (finished, Close,
\* empty payload) instead of an error; every other complete frame is returned
\* with its own finished bit, opcode and payload.
C33_CompleteFrame ==
  ( /\ frame.state = "Parsed"
    /\ frame.got = Len(frame.wire.head) + frame.wire.payload.len
    /\ frame.server = frame.genmask
    /\ frame.max_size >= frame.msg.payload.len ) =>
    LET nibble == frame.wire.head[1] % 16
        length == frame.msg.payload.len
    IN IF nibble \notin {0, 1, 2, 8, 9, 10}
       THEN frame.res = [ParsedNone EXCEPT !.kind = "Err", !.err = "InvalidOpcode", !.n = nibble]
       ELSE IF nibble \in {9, 10} /\ length > 125
       THEN frame.res = [ParsedNone EXCEPT !.kind = "Err", !.err = "InvalidLength", !.n = length]
       ELSE IF nibble = 8 /\ length > 125
       THEN /\ frame.res.kind = "Frame"
            /\ frame.res.finished /\ frame.res.opcode = "Close"
            /\ frame.res.payload.len = 0
       ELSE /\ OpCodes[frame.msg.opcode] = nibble
            /\ SameFrame

\* An unfinished Close frame of 126 bytes was parsed as the finished, empty
\* close frame.
C33_Witness ==
  /\ frame.state = "Parsed"
  /\ frame.got = Len(frame.wire.head) + frame.wire.payload.len
  /\ frame.msg.opcode = "Close" /\ ~frame.msg.finished
  /\ frame.msg.payload.len = 126
  /\ frame.res = DefaultFrame

\* ================================================================ handlers with extractors
\* With, With2 and With3 wrap a handler of one, two or three extracted
\* arguments.  hfut is the WithHandlerFut of one request: hfut.n the number of
\* extractors, hfut.fut the extractor whose future is stored (fut1..fut3; 0:
\* none), hfut.items the number of extracted items, hfut.futh whether the
\* future of the handler's reply is stored (fut2, fut3 or fut4 of the three
\* structs), hfut.log what was called, in order, hfut.reply what With::handle
\* returned and hfut.out what the request came to.

\* The polls of one WithHandlerFut.
MaxPolls == 5

\* A poll that asks every extractor at once: the next from_request is called
\* while the previous future is still pending.
poll_all_at_once(f, o) ==
  LET Did(g, what, i) == [g EXCEPT !.log = Append(@, <<what, i>>)]
      Out(g, kind, by) == [g EXCEPT !.out = [kind |-> kind, by |-> by]]
      respond(g) ==
        CASE o.fut = "Ready" -> Out(g, "Response", 0)
          [] o.fut = "Err" -> Out(g, "Err", 0)
          [] OTHER -> g
      call(g) ==
        CASE o.hnd = "Message" -> Out(Did(g, "handler", 0), "Response", 0)
          [] o.hnd = "Err" -> Out(Did(g, "handler", 0), "Err", 0)
          [] OTHER -> respond([Did(g, "handler", 0) EXCEPT !.futh = TRUE])
      RECURSIVE extract(_, _)
      extract(g, i) ==
        LET h == IF g.fut = i THEN g ELSE Did(g, "from_request", i)
        IN CASE o.ex[i] = "NotReady" ->
                  IF i < g.n /\ g.fut # i
                  THEN [Did(h, "from_request", i + 1) EXCEPT !.fut = i]
                  ELSE [h EXCEPT !.fut = i]
             [] o.ex[i] = "Err" -> Out(Did(h, "failed", i), "Err", i)
             [] OTHER ->
                  LET k == [Did(h, "extracted", i) EXCEPT !.fut = 0, !.items = i]
                  IN IF i < g.n THEN extract(k, i + 1) ELSE call(k)
  IN IF f.futh THEN respond(f)
     ELSE IF ~f.started THEN extract([f EXCEPT !.started = TRUE], 1)
     ELSE extract(f, f.fut)

\* WithHandlerFut::poll, WithHandlerFut2::poll and WithHandlerFut3::poll, for
\* the struct with f.n extractors.  o says what the futures polled in this call
\* answer: o.ex[i] the future of extractor i, o.hnd what the handler's reply is
\* (ReplyItem::Message, ReplyItem::Future, or Err from respond_to), o.fut the
\* future of that reply.  Each of them is polled at most once in one call.
WithHandlerFut_poll(f, o) ==
  LET Did(g, what, i) == [g EXCEPT !.log = Append(@, <<what, i>>)]
      Out(g, kind, by) == [g EXCEPT !.out = [kind |-> kind, by |-> by]]
      \* the stored future of the reply is polled: return fut.poll()
      respond(g) ==
        CASE o.fut = "Ready" -> Out(g, "Response", 0)
          [] o.fut = "Err" -> Out(g, "Err", 0)
          [] OTHER -> g
      \* (*hnd)(item ..).respond_to(..)
      call(g) ==
        CASE o.hnd = "Message" -> Out(Did(g, "handler", 0), "Response", 0)
          [] o.hnd = "Err" -> Out(Did(g, "handler", 0), "Err", 0)
          [] OTHER -> respond([Did(g, "handler", 0) EXCEPT !.futh = TRUE])
      \* T_i::from_request unless its future is the stored one, then its poll
      RECURSIVE extract(_, _)
      extract(g, i) ==
        LET h == IF g.fut = i THEN g ELSE Did(g, "from_request", i)
        IN CASE o.ex[i] = "NotReady" -> [h EXCEPT !.fut = i]
             [] o.ex[i] = "Err" -> Out(Did(h, "failed", i), "Err", i)
             [] OTHER ->
                  LET k == [Did(h, "extracted", i) EXCEPT !.fut = 0, !.items = i]
                  IN IF i < g.n THEN extract(k, i + 1) ELSE call(k)
  IN IF f.futh THEN respond(f)
     ELSE IF ~f.started THEN extract([f EXCEPT !.started = TRUE], 1)
     ELSE extract(f, f.fut)

\* With::handle, With2::handle, With3::handle: the future is built and polled
\* once; Reply::response if that settled it, Reply::async(fut) otherwise.
With_handle(n, o) ==
  /\ hfut.state = "Absent"
  /\ \E f \in {WithHandlerFut_poll([state |-> "Handled", n |-> n, started |-> FALSE,
                                    fut |-> 0, items |-> 0, futh |-> FALSE, log |-> <<>>,
                                    out |-> [kind |-> "", by |-> 0],
                                    reply |-> "", polls |-> 1], o)} :
       hfut' = [f EXCEPT !.reply = IF f.out.kind = "" THEN "async" ELSE "response"]
  /\ UNCHANGED <<netVars, defaults, pipe, sreq, pl, clock, webVars>>

\* The pipeline polls the future of an async Reply until it is settled.
PollReply(o) ==
  /\ hfut.state = "Handled"
  /\ hfut.reply = "async"
  /\ hfut.out.kind = ""
  /\ hfut.polls < MaxPolls
  /\ hfut' = [WithHandlerFut_poll(hfut, o) EXCEPT !.polls = @ + 1]
  /\ UNCHANGED <<netVars, defaults, pipe, sreq, pl, clock, webVars>>

WithSpec ==
  /\ Start({cfg \in OpenConfigs : cfg.limit_per_host = 0})
  /\ [][\E ex \in [1..3 -> {"Ready", "NotReady", "Err"}],
           hnd \in {"Message", "Future", "Err"}, fut \in {"Ready", "NotReady", "Err"} :
          \/ \E n \in 1..3 : With_handle(n, [ex |-> ex, hnd |-> hnd, fut |-> fut])
          \/ PollReply([ex |-> ex, hnd |-> hnd, fut |-> fut])]_vars

\* C34: a handler registered with with/with2/with3 is invoked at most once per
\* request and only after every extractor has resolved successfully; the
\* extractors are started one after another in argument order, none before the
\* previous one has resolved; if an extractor fails the handler is not invoked
\* and the reply is that error's response.
C34_ExtractThenHandle ==
  hfut.state = "Handled" =>
    LET log == hfut.log
        At(what, i) == { k \in 1..Len(log) : log[k] = <<what, i>> }
    IN /\ Cardinality(At("handler", 0)) <= 1
       /\ \A i \in 1..3 :
            /\ Cardinality(At("from_request", i)) <= 1
            /\ At("from_request", i) # {} => i <= hfut.n
            /\ \A k \in At("handler", 0) : i <= hfut.n => \E j \in At("extracted", i) : j < k
            /\ \A k \in At("from_request", i) :
                 i > 1 => \E j \in At("extracted", i - 1) : j < k
            /\ \A k \in At("extracted", i) \cup At("failed", i) :
                 \E j \in At("from_request", i) : j < k
            /\ At("failed", i) # {} =>
                 /\ At("handler", 0) = {}
                 /\ hfut.out = [kind |-> "Err", by |-> i]
                 /\ hfut.polls = 1 => hfut.reply = "response"
       /\ At("handler", 0) # {} => hfut.items = hfut.n

\* A with3 handler whose extractors resolved in three different polls was called
\* once, after the third, and its reply became the response.
C34_Witness ==
  /\ hfut.state = "Handled"
  /\ hfut.n = 3
  /\ hfut.polls = 3
  /\ hfut.reply = "async"
  /\ hfut.log = << <<"from_request", 1>>, <<"extracted", 1>>, <<"from_request", 2>>,
                   <<"extracted", 2>>, <<"from_request", 3>>, <<"extracted", 3>>,
                   <<"handler", 0>> >>
  /\ hfut.out = [kind |-> "Response", by |-> 0]

\* ================================================================ default headers
\* defaults.mw is a DefaultHeaders middleware: ct, and headers, the HeaderMap as
\* the (name, value) pairs that iter() yields (a name may carry several values).
\* defaults.before is a response's HeaderMap (name -> values) as the handler
\* left it, defaults.after the same after Middleware::response, defaults.twice
\* after a second pass through the middleware.

\* The header() calls on one builder.
MaxHeaders == 2

\* A Middleware::response that sets its headers whatever the response holds.
response_overwriting(mw, resp) ==
  LET RECURSIVE each(_, _)
      each(hs, r) ==
        IF hs = <<>> THEN r
        ELSE each(Tail(hs),
                  [k \in DOMAIN r \cup {Head(hs)[1]} |->
                     IF k = Head(hs)[1] THEN <<Head(hs)[2]>> ELSE r[k]])
      set == each(mw.headers, resp)
  IN IF mw.ct
     THEN [k \in DOMAIN set \cup {"content-type"} |->
             IF k = "content-type" THEN <<"application/octet-stream">> ELSE set[k]]
     ELSE set

\* Middleware::response of DefaultHeaders: the response's HeaderMap afterwards.
\* insert(key, value) makes <<value>> the values of key.
DefaultHeaders_response(mw, resp) ==
  LET RECURSIVE each(_, _)
      each(hs, r) ==
        IF hs = <<>> THEN r
        ELSE each(Tail(hs),
                  IF Head(hs)[1] \in DOMAIN r THEN r
                  ELSE [k \in DOMAIN r \cup {Head(hs)[1]} |->
                          IF k = Head(hs)[1] THEN <<Head(hs)[2]>> ELSE r[k]])
      set == each(mw.headers, resp)
  IN IF mw.ct /\ "content-type" \notin DOMAIN set
     THEN [k \in DOMAIN set \cup {"content-type"} |->
             IF k = "content-type" THEN <<"application/octet-stream">> ELSE set[k]]
     ELSE set

\* DefaultHeaders::build(), header(key, value) for each of calls, content_type()
\* if ct, finish().  HeaderName::try_from gives the lower-case name; append adds
\* the value behind the values the name already has.
BuildDefaults(calls, ct) ==
  LET HeaderName(key) == IF key = "Content-Type" THEN "content-type" ELSE key
      RECURSIVE append(_, _)
      append(cs, hs) ==
        IF cs = <<>> THEN hs
        ELSE LET key == HeaderName(Head(cs)[1])
                 same == { i \in 1..Len(hs) : hs[i][1] = key }
                 at == IF same = {} THEN Len(hs) ELSE CHOOSE i \in same : \A j \in same : j <= i
             IN append(Tail(cs), SubSeq(hs, 1, at) \o << <<key, Head(cs)[2]>> >>
                                   \o SubSeq(hs, at + 1, Len(hs)))
  IN /\ defaults.state = "Absent"
     /\ defaults' = [state |-> "Built", mw |-> [ct |-> ct, headers |-> append(calls, <<>>)],
                     before |-> <<>>, after |-> <<>>, twice |-> <<>>]
     /\ UNCHANGED <<netVars, hfut, pipe, sreq, pl, clock, webVars>>

\* The pipeline passes a response with the headers resp through the middleware,
\* and what comes out through it once more.
ApplyDefaults(resp) ==
  /\ \/ /\ defaults.state = "Built"
        /\ defaults' = [defaults EXCEPT !.state = "Applied", !.before = resp,
                                        !.after = DefaultHeaders_response(defaults.mw, resp)]
     \/ /\ defaults.state = "Applied"
        /\ resp = defaults.after
        /\ defaults' = [defaults EXCEPT !.state = "Twice",
                                        !.twice = DefaultHeaders_response(defaults.mw, resp)]
  /\ UNCHANGED <<netVars, hfut, pipe, sreq, pl, clock, webVars>>

DefaultsSpec ==
  /\ Start({cfg \in OpenConfigs : cfg.limit_per_host = 0})
  /\ [][\/ \E n \in 0..MaxHeaders, ct \in BOOLEAN :
             \E calls \in [1..n -> {"Content-Type", "content-type", "x-version"}
                                     \X {"0001", "0.2"}] :
               BuildDefaults(calls, ct)
        \/ \E names \in SUBSET {"content-type", "x-version", "set-cookie"} :
             \E resp \in [names -> {<<"0002">>, <<"a=1", "b=2">>}] : ApplyDefaults(resp)
        \/ defaults.state = "Applied" /\ ApplyDefaults(defaults.after)]_vars

\* C35: DefaultHeaders::response never changes or removes a header already
\* present in the response: it adds a configured header only when the response
\* has no header of that name (and Content-Type: application/octet-stream only
\* when content_type() was requested and none is present), so applying it twice
\* gives the same response as applying it once.
C35_DefaultsOnlyAdd ==
  LET mw == defaults.mw
      configured == { mw.headers[i][1] : i \in 1..Len(mw.headers) }
      FirstOf(name) ==
        mw.headers[CHOOSE i \in 1..Len(mw.headers) :
                     /\ mw.headers[i][1] = name
                     /\ \A j \in 1..(i - 1) : mw.headers[j][1] # name][2]
  IN /\ defaults.state \in {"Applied", "Twice"} =>
          /\ \A name \in DOMAIN defaults.before :
               name \in DOMAIN defaults.after /\ defaults.after[name] = defaults.before[name]
          /\ \A name \in DOMAIN defaults.after \ DOMAIN defaults.before :
               IF name \in configured THEN defaults.after[name] = <<FirstOf(name)>>
               ELSE /\ name = "content-type" /\ mw.ct
                    /\ defaults.after[name] = <<"application/octet-stream">>
          /\ configured \subseteq DOMAIN defaults.after
          /\ mw.ct => "content-type" \in DOMAIN defaults.after
     /\ defaults.state = "Twice" => defaults.twice = defaults.after

\* A middleware with Content-Type 0001 and content_type() met a response that
\* had Content-Type 0002 and two cookies: it left both alone, twice.
C35_Witness ==
  /\ defaults.state = "Twice"
  /\ defaults.mw = [ct |-> TRUE, headers |-> << <<"content-type", "0001">> >>]
  /\ DOMAIN defaults.before = {"content-type", "set-cookie"}
  /\ defaults.before["content-type"] = <<"0002">>
  /\ defaults.before["set-cookie"] = <<"a=1", "b=2">>
  /\ defaults.twice = defaults.before

\* ================================================================ properties of the connector, continued
\* C36 as stated: a Connect message handled while a live waiter is queued for
\* its key is not handed a connection or a dial of that key (it queues behind
\* the waiter), also when a slot of the key was given back just before.
C36_ArrivalOrder ==
  [][\A key \in Keys :
       (\E i \in 1..Len(waiters[key]) : waiters[key][i].wait > now)
       => /\ ~\E d \in BagToSet(dials') :
                /\ d.req = 0 /\ d.pooled /\ d.key = key
                /\ CopiesIn(d, dials') > CopiesIn(d, dials)
          /\ ~( /\ served' = <<>>
                /\ dials' = dials
                /\ \E h \in held' \ held : h.pooled /\ h.conn.key = key )]_vars

\* C37: a slot reserved for a dial is always given back.  When a dial to an
\* http(s) key ends without a connection reaching the requester (the resolver
\* or the handshake failed or timed out, or the requester was gone), the Pool
\* holds one more notification for the key and is marked modified, no counter
\* and no idle bucket has changed yet, and the next collect frees the slot;
\* a collect frees exactly the slots the Pool holds notifications for and
\* leaves none behind, and only released connections enter the idle set.
C37_DialSlotReturned ==
  [][/\ \A d \in BagToSet(dials) :
          ( /\ d.pooled
            /\ CopiesIn(d, dials') < CopiesIn(d, dials)
            /\ held' = held )
          => /\ pool_keys' = Append(pool_keys, d.key)
             /\ pool_modified'
             /\ UNCHANGED <<connVars, pool_to_close, pool_to_release>>
             /\ (PerHost(collect(Connector), d.key) = PerHost(Connector, d.key) - Pending(d.key))'
             /\ (Pending(d.key) >= 1)'
             /\ (collect(Connector).acquired = acquired - Len(pool_keys)
                                                 - Len(pool_to_close) - Len(pool_to_release))'
     /\ ( /\ pool_modified /\ ~pool_modified'
          /\ dials' = dials /\ held' = held /\ waiters' = waiters )
        => \A key \in Keys :
             /\ PerHost(Connector, key)' = PerHost(Connector, key) - Pending(key)
             /\ Pending(key)' = 0
             /\ IdsOf(available[key])' \subseteq
                  IdsOf(available[key])
                    \cup { pool_to_release[i].id : i \in 1..Len(pool_to_release) }]_vars

\* No connection was ever opened, and the slot of a dial that failed or found
\* its requester gone waits in the Pool for the next collect.
C37_Witness ==
  /\ nconn = 0
  /\ held = {}
  /\ Len(pool_keys) = 1
  /\ pool_modified
  /\ acquired >= 1
  /\ \A key \in Keys : available[key] = <<>>

\* C38: whenever one of the Pool's buffers (keys, to_close, to_release) is
\* non-empty the modified flag is set, and a step that collects under the flag
\* leaves all three empty and the flag clear, having processed every entry
\* once: the slots drop by the number of entries (less what the same handler
\* reserves anew), a closed connection is neither idle nor held afterwards, and
\* a released connection is in one place at most, the idle bucket of its key
\* when nothing else happens in the step and it is within its lifetime.
C38_BuffersFlagged ==
  [][LET Slots == Cardinality({ h \in held : h.pooled })
                    + BagCardinality([d \in { x \in BagToSet(dials) : x.pooled } |-> dials[d]])
         Idle_(av, id) ==
           Cardinality(UNION { { <<key, j>> : j \in { n \in 1..Len(av[key]) :
                                                       av[key][n].conn.id = id } } : key \in Keys })
         Places(av, hd, tc, id) == Idle_(av, id) + (IF \E h \in hd : h.conn.id = id THEN 1 ELSE 0)
                                                 + (IF id \in tc THEN 1 ELSE 0)
     IN /\ (pool_keys # <<>> \/ pool_to_close # <<>> \/ pool_to_release # <<>>) => pool_modified
        /\ (pool_keys' # <<>> \/ pool_to_close' # <<>> \/ pool_to_release' # <<>>) => pool_modified'
        /\ (pool_modified /\ ~pool_modified')
           => /\ pool_keys' = <<>> /\ pool_to_close' = <<>> /\ pool_to_release' = <<>>
              /\ acquired' - Slots' = acquired - Slots - Len(pool_keys)
                                        - Len(pool_to_close) - Len(pool_to_release)
              /\ \A i \in 1..Len(pool_to_close) :
                   /\ Idle_(available', pool_to_close[i].id) = 0
                   /\ \A h \in held' : h.conn.id # pool_to_close[i].id
              /\ \A i \in 1..Len(pool_to_release) :
                   /\ Places(available', held', to_close', pool_to_release[i].id) <= 1
                   /\ ( /\ held' = held /\ dials' = dials /\ waiters' = waiters
                        /\ (now - pool_to_release[i].ts) < conn_lifetime )
                      => Idle_(available', pool_to_release[i].id) = 1]_vars

\* Two connections were opened and given back, one released and one closed;
\* a collect has taken both: no slot is held, one connection is idle, the
\* other awaits its shutdown, and the Pool is empty and unmodified.
C38_Witness ==
  /\ nconn = 2 /\ held = {} /\ dials = EmptyBag
  /\ ~pool_modified
  /\ pool_keys = <<>> /\ pool_to_close = <<>> /\ pool_to_release = <<>>
  /\ acquired = 0
  /\ Cardinality(to_close) = 1
  /\ \E key \in Keys : Len(available[key]) = 1 /\ available[key][1].conn.id \notin to_close

\* C39: connections requested with the ws or wss scheme never go through
\* admission.  A Connect for such a uri that passes the checks of the uri is
\* answered with a dial whatever the limits and the slots taken; the step
\* reserves nothing (the connector is left as its collect leaves it) and
\* queues no waiter; and the end of such a dial and the release, close or drop
\* of such a connection change neither the counters, nor the idle set, nor the
\* Pool.
C39_WsUnpooled ==
  [][LET cap == Cap(MaxTime, PoolWaiters, MaxDials, MaxConns, MaxWs)
         Unpooled == BagCardinality([d \in { x \in BagToSet(dials) : ~x.pooled } |-> dials[d]])
                       + Cardinality({ h \in held : ~h.pooled })
         ws == { uri \in Uris : ProtocolFrom(uri.scheme) \in {"Ws", "Wss"} /\ ~InvalidConnect(uri) }
     IN /\ \A uri \in ws :
             /\ Unpooled < MaxWs => ENABLED Connect(uri, 1, <<>>, cap)
             /\ \A wait_time \in {1, 2}, probe \in Probes({KeyOf(uri)} \cap Keys) :
                  Connect(uri, wait_time, probe, cap)
                  => /\ dials' = dials (+) SetToBag({[req |-> 0, key |-> KeyOf(uri), pooled |-> FALSE]})
                     /\ <<acquired', acquired_per_host', available', to_close'>> =
                          <<Collected.acquired, Collected.acquired_per_host,
                            Collected.available, Collected.to_close>>
                     /\ UNCHANGED <<waiters, nwait, wait_timeout, held>>
        /\ \A d \in BagToSet(dials) :
             (~d.pooled /\ CopiesIn(d, dials') < CopiesIn(d, dials))
             => /\ UNCHANGED <<connVars, poolVars, waiters>>
                /\ \A h \in held' \ held : ~h.pooled
        /\ \A h \in held \ held' : ~h.pooled => UNCHANGED <<connVars, poolVars, waiters, dials>>
        /\ \A h \in held' : h.pooled \/ h.conn.id \notin UNION { IdsOf(available'[k]) : k \in Keys }]_vars

\* The limit of two is reached by two http connections of the host, a third
\* http request waits in the queue, and a dial for a ws connection to the same
\* host is in flight.
C39_Witness ==
  /\ limit = 2 /\ acquired = 2
  /\ Cardinality({ h \in held : h.pooled }) = 2
  /\ \E k \in Keys : waiters[k] # <<>>
  /\ \E d \in BagToSet(dials) : ~d.pooled /\ d.key.host = "h1"

\* ================================================================ properties of the router, continued
\* C40 as stated: for a named pattern that is not external and as many values
\* as it has variables, each fitting its variable, the path resource_path
\* builds, with the router's prefix removed, is matched by the same pattern,
\* and match_with_params extracts the values supplied, in order.
C40_PathRoundTrip ==
  ( /\ request.state = "Some" /\ request.op = "resource_path"
    /\ request.arg[1] \in DOMAIN router.named
    /\ router.named[request.arg[1]].pattern.rtp # "External"
    /\ Len(request.arg[2]) = Len(router.named[request.arg[1]].pattern.names) )
  => LET res == router.named[request.arg[1]].pattern
         els == request.arg[2]
         rest == SubSeq(request.ret.s, router.prefix_len + 1, Len(request.ret.s))
         m == match_with_params(res, rest, <<>>, "path")
     IN /\ request.ret.kind = "Ok"
        /\ m.ok
        /\ Len(m.params) = Len(els)
        /\ \A i \in 1..Len(els) :
             m.params[i].name = res.names[i] /\ m.params[i].value = els[i]

====
